---- MODULE Spec2Model ----
(***************************************************************************)
(* Session-scoped conversation management of ia-aprendizagem:              *)
(*   services/session_service.py  the session store and the SessionService *)
(*   services/agent_service.py    the orchestrator (one turn per request)  *)
(*   api/main.py                  the HTTP handlers                        *)
(*                                                                         *)
(* The in-memory store keeps REFERENCES to ConversationSession objects, so *)
(* the model has a heap: sessions maps an id to a reference, heap maps a   *)
(* reference to the object, and a running turn keeps the reference it got  *)
(* from get_or_create_session.                                             *)
(*                                                                         *)
(* Scheduling.  The handlers are asyncio coroutines.  A coroutine of       *)
(* InMemorySessionStorage contains no await, so awaiting it never yields   *)
(* to the event loop: in specification Spec every SessionService call is   *)
(* one step, and a streaming turn is cut only where the generator yields   *)
(* an event or sleeps between two fragments.  Specification SpecAwait      *)
(* takes the SessionStorage interface at its word (every storage           *)
(* coroutine is a suspension point) for get_or_create_session.             *)
(*                                                                         *)
(* Time is counted in hours; datetime.now() is taken to be non-decreasing. *)
(* A text is a sequence of atoms; the atom " " is whitespace.              *)
(***************************************************************************)
EXTENDS Integers, Sequences, FiniteSets, TLC

\* ------------------------------------------------------------------ bounds
MaxTime == 2     \* the clock stops here
MaxMsgs == 2     \* a request is accepted while its session has room below this
MaxHistory == 12 \* a history handed to the context builder has at most this many entries

\* ------------------------------------------------------------------ values
NoneId == "None"                 \* Python's None where a session id is expected
NoRef == 0                       \* Python's None where a session object is expected
Refs == {1, 2}                   \* ConversationSession objects alive at once
UuidSeq == <<"u1">>              \* what uuid4() returns, call by call
Uuid(n) == UuidSeq[n]
ClientIds == {"", "a"}           \* ids a client makes up; "" is the empty string
AllIds == ClientIds \cup {Uuid(n) : n \in 1..Len(UuidSeq)}
Roles == {"user", "assistant"}
Queries == {<<"q">>}
Responses == {<<>>, <<"r", " ", " ", "s">>}
Metas == {"None", "{src}"}       \* the metadata argument: None or a non-empty dict
SessionTimeouts == 1..(MaxTime - 1)   \* max_age_hours
AgentName == "{agent_name}"
\* what the direct callers of add_message append
Appends == {[role |-> "user", content |-> <<"q">>, metadata |-> "None"],
            [role |-> "assistant", content |-> <<"r">>, metadata |-> "{src}"]}

NullSession ==
  [session_id |-> NoneId, messages |-> <<>>, created_at |-> 0, updated_at |-> 0]

VARIABLES
  sessions,    \* InMemorySessionStorage._sessions: id -> reference (NoRef: no key)
  heap,        \* reference -> ConversationSession object (NullSession: unused)
  now,         \* datetime.now(), in hours
  uuidCount,   \* how many ids uuid4() has produced
  turn,        \* the process_query_stream generators, one per request slot
  goc,         \* get_or_create_session callers of SpecAwait
  sweeper,     \* the cleanup_sessions task of lifespan
  lastOp       \* the operation just performed and what it returned or raised

vars == <<sessions, heap, now, uuidCount, turn, goc, sweeper, lastOp>>

Turns == {"t1", "t2"}
Callers == {"c1", "c2"}

\* ----------------------------------------------------------- small helpers
Truthy(session_id) == session_id # NoneId /\ session_id # ""

\* `metadata or {}`
MetaOr(metadata) == IF metadata \in {"None", "{}"} THEN "{}" ELSE metadata

Min(S) == CHOOSE x \in S : \A y \in S : x <= y

FreeRefs(h) == {r \in Refs : h[r] = NullSession}

IsPrefix(s, t) == Len(s) <= Len(t) /\ SubSeq(t, 1, Len(s)) = s

\* The memory the storage operations work on.
Mem == [sessions |-> sessions, heap |-> heap, uuidCount |-> uuidCount]

\* ids a client can put in a request: made up, or a uuid some response has shown
GivenIds == ClientIds \cup {Uuid(n) : n \in 1..uuidCount}

\* -------------------------------------------------- ConversationSession
\* ConversationSession(session_id=session_id): the dataclass defaults
NewSession(session_id, t) ==
  [session_id |-> session_id, messages |-> <<>>, created_at |-> t, updated_at |-> t]

\* Message(role, content, metadata=metadata or {}).  Message.timestamp, the time
\* of the append, is the updated_at the same append sets; it is not kept per
\* message.
Message(role, content, metadata, t) ==
  [role |-> role, content |-> content, metadata |-> MetaOr(metadata)]

\* mutants of ConversationSession.add_message: the message goes to the front;
\* the message replaces the list; updated_at is left alone
Session_add_message_Front(s, role, content, metadata, t) ==
  [s EXCEPT !.messages = <<Message(role, content, metadata, t)>> \o s.messages,
            !.updated_at = t]
Session_add_message_Replace(s, role, content, metadata, t) ==
  [s EXCEPT !.messages = <<Message(role, content, metadata, t)>>,
            !.updated_at = t]
Session_add_message_NoBump(s, role, content, metadata, t) ==
  [s EXCEPT !.messages = Append(s.messages, Message(role, content, metadata, t))]

\* ConversationSession.add_message
Session_add_message(s, role, content, metadata, t) ==
  [s EXCEPT !.messages = Append(s.messages, Message(role, content, metadata, t)),
            !.updated_at = t]

\* ConversationSession.get_conversation_history
HistoryEntry(m) == [role |-> m.role, content |-> m.content]
get_conversation_history(s) == [i \in 1..Len(s.messages) |-> HistoryEntry(s.messages[i])]

\* ----------------------------------------------- InMemorySessionStorage
\* Each operation returns the memory after it, the exception it raised ("" for
\* none) and its return value.
\* mutant: a duplicate id overwrites the stored session
Storage_create_session_Overwrite(M, session_id, t) ==
  LET gen == session_id = NoneId
      id == IF gen THEN Uuid(M.uuidCount + 1) ELSE session_id
      M1 == IF gen THEN [M EXCEPT !.uuidCount = M.uuidCount + 1] ELSE M
      r == IF M1.sessions[id] # NoRef THEN M1.sessions[id] ELSE Min(FreeRefs(M1.heap))
  IN [mem |-> [M1 EXCEPT !.sessions[id] = r, !.heap[r] = NewSession(id, t)],
      exc |-> "", ref |-> r, id |-> id]

Storage_create_session(M, session_id, t) ==
  LET gen == session_id = NoneId
      id == IF gen THEN Uuid(M.uuidCount + 1) ELSE session_id
      M1 == IF gen THEN [M EXCEPT !.uuidCount = M.uuidCount + 1] ELSE M
  IN IF M1.sessions[id] # NoRef
       THEN [mem |-> M1, exc |-> "AlreadyExists", ref |-> NoRef, id |-> id]
       ELSE LET r == Min(FreeRefs(M1.heap))
            IN [mem |-> [M1 EXCEPT !.sessions[id] = r,
                                   !.heap[r] = NewSession(id, t)],
                exc |-> "", ref |-> r, id |-> id]

Storage_get_session(M, session_id) ==
  IF session_id \in AllIds THEN M.sessions[session_id] ELSE NoRef

\* mutant: the messages already stored under the id are kept in front of the
\* ones passed in
Storage_update_session_Merge(M, r) ==
  LET id == M.heap[r].session_id
      old == M.sessions[id]
  IN IF old # NoRef /\ old # r
       THEN [M EXCEPT !.sessions[id] = r,
                      !.heap[r].messages = M.heap[old].messages \o @]
       ELSE [M EXCEPT !.sessions[id] = r]

Storage_update_session(M, r) ==
  [M EXCEPT !.sessions[M.heap[r].session_id] = r]

\* mutant: a missing id is reported as deleted
Storage_delete_session_AlwaysTrue(M, session_id) ==
  [mem |-> IF session_id \in AllIds THEN [M EXCEPT !.sessions[session_id] = NoRef] ELSE M,
   ret |-> TRUE]

Storage_delete_session(M, session_id) ==
  IF session_id \in AllIds /\ M.sessions[session_id] # NoRef
    THEN [mem |-> [M EXCEPT !.sessions[session_id] = NoRef], ret |-> TRUE]
    ELSE [mem |-> M, ret |-> FALSE]

\* mutant: a session updated exactly at the cutoff expires too
Expired_Inclusive(M, max_age_hours, t) ==
  LET cutoff_time == t - max_age_hours
  IN {id \in AllIds : M.sessions[id] # NoRef
                      /\ M.heap[M.sessions[id]].updated_at <= cutoff_time}

Expired(M, max_age_hours, t) ==
  LET cutoff_time == t - max_age_hours
  IN {id \in AllIds : M.sessions[id] # NoRef
                      /\ M.heap[M.sessions[id]].updated_at < cutoff_time}

\* mutant: the sweep also removes the sessions that hold no message
Storage_cleanup_expired_sessions_Empty(M, max_age_hours, t) ==
  LET expired_sessions == Expired(M, max_age_hours, t)
                          \cup {id \in AllIds : M.sessions[id] # NoRef
                                  /\ M.heap[M.sessions[id]].messages = <<>>}
  IN [mem |-> [M EXCEPT !.sessions =
                 [id \in AllIds |-> IF id \in expired_sessions THEN NoRef
                                    ELSE M.sessions[id]]],
      ret |-> Cardinality(expired_sessions)]

Storage_cleanup_expired_sessions(M, max_age_hours, t) ==
  LET expired_sessions == Expired(M, max_age_hours, t)
  IN [mem |-> [M EXCEPT !.sessions =
                 [id \in AllIds |-> IF id \in expired_sessions THEN NoRef
                                    ELSE M.sessions[id]]],
      ret |-> Cardinality(expired_sessions)]

\* An object nothing refers to any more is freed (reference counting).
Referenced(ss, tn) ==
  ({ss[id] : id \in AllIds} \cup {tn[t].session : t \in Turns}) \ {NoRef}
Collect(ss, h, tn) ==
  [r \in Refs |-> IF r \in Referenced(ss, tn) THEN h[r] ELSE NullSession]

\* A creation needs a fresh uuid (no id given) and a free object.
Fits(M, session_id) ==
  /\ session_id = NoneId => M.uuidCount < Len(UuidSeq)
  /\ FreeRefs(M.heap) # {}

\* get_or_create_session goes on to create_session
Creates(M, session_id) ==
  ~(Truthy(session_id) /\ M.sessions[session_id] # NoRef)

\* room for the two messages of a turn
Room(M, session_id) ==
  (session_id \in AllIds /\ M.sessions[session_id] # NoRef)
    => Len(M.heap[M.sessions[session_id]].messages) + 2 <= MaxMsgs

\* ------------------------------------------------------- SessionService
create_session(M, session_id, t) == Storage_create_session(M, session_id, t)

\* mutant: an absent id is not provisioned, a fresh uuid is used instead
get_or_create_session_Fresh(M, session_id, t) ==
  LET session == IF Truthy(session_id) THEN Storage_get_session(M, session_id)
                 ELSE NoRef
  IN IF Truthy(session_id) /\ session # NoRef
       THEN [mem |-> M, exc |-> "", ref |-> session, id |-> session_id]
       ELSE IF M.uuidCount < Len(UuidSeq)
              THEN Storage_create_session(M, NoneId, t)
              ELSE Storage_create_session(M, session_id, t)

\* mutant: finding a session counts as activity on it
get_or_create_session_Touch(M, session_id, t) ==
  LET session == IF Truthy(session_id) THEN Storage_get_session(M, session_id)
                 ELSE NoRef
  IN IF Truthy(session_id) /\ session # NoRef
       THEN [mem |-> [M EXCEPT !.heap[session].updated_at = t], exc |-> "",
             ref |-> session, id |-> session_id]
       ELSE Storage_create_session(M, session_id, t)

get_or_create_session(M, session_id, t) ==
  LET session == IF Truthy(session_id) THEN Storage_get_session(M, session_id)
                 ELSE NoRef
  IN IF Truthy(session_id) /\ session # NoRef
       THEN [mem |-> M, exc |-> "", ref |-> session, id |-> session_id]
       ELSE Storage_create_session(M, session_id, t)

\* mutant: an absent id is created on the way (upsert)
add_message_Upsert(M, session_id, role, content, metadata, t) ==
  LET session == Storage_get_session(M, session_id)
      c == Storage_create_session(M, session_id, t)
      M0 == IF session = NoRef THEN c.mem ELSE M
      r == IF session = NoRef THEN c.ref ELSE session
  IN IF session = NoRef /\ FreeRefs(M.heap) = {}
       THEN [mem |-> M, exc |-> "NotFound", ref |-> NoRef]
       ELSE LET M1 == [M0 EXCEPT !.heap[r] =
                         Session_add_message(M0.heap[r], role, content, metadata, t)]
            IN [mem |-> Storage_update_session(M1, r), exc |-> "", ref |-> r]

add_message(M, session_id, role, content, metadata, t) ==
  LET session == Storage_get_session(M, session_id)
  IN IF session = NoRef
       THEN [mem |-> M, exc |-> "NotFound", ref |-> NoRef]
       ELSE LET M1 == [M EXCEPT !.heap[session] =
                         Session_add_message(M.heap[session], role, content, metadata, t)]
            IN [mem |-> Storage_update_session(M1, session), exc |-> "", ref |-> session]

Service_get_conversation_history(M, session_id) ==
  LET session == Storage_get_session(M, session_id)
  IN IF session = NoRef
       THEN [exc |-> "NotFound", ret |-> <<>>]
       ELSE [exc |-> "", ret |-> get_conversation_history(M.heap[session])]

delete_session(M, session_id) == Storage_delete_session(M, session_id)

cleanup_expired_sessions(M, max_age_hours, t) ==
  Storage_cleanup_expired_sessions(M, max_age_hours, t)

\* ------------------------------------------------------------------ state
IdleTurn ==
  [pc |-> "idle", given |-> NoneId, session |-> NoRef, session_id |-> NoneId,
   enhanced_query |-> <<>>, pending |-> <<>>, full_response |-> <<>>,
   events |-> <<>>]

IdleCaller == [pc |-> "idle", session_id |-> NoneId, exc |-> "", sid |-> NoneId]

\* asyncio.create_task(cleanup_sessions()): the task is about to run its first
\* sweep; logged: an iteration has failed and logger.error has recorded it;
\* shutdown: how far the shutdown half of lifespan has come ("no": the
\* application serves, "cancel": cleanup_task.cancel() is called and the
\* CancelledError not yet delivered, "await": lifespan awaits the task,
\* "done": lifespan has returned)
StartedSweeper == [pc |-> "sweep", logged |-> FALSE, shutdown |-> "no"]

\* What an operation returned: the exception raised ("" for none), the
\* session_id of the session returned, a number (length or count), a boolean,
\* the HTTP status of a handler (0 outside a handler) and a list.
Op(op, id, exc, sid, n, ok, status, val) ==
  [op |-> op, id |-> id, exc |-> exc, sid |-> sid, n |-> n, ok |-> ok,
   status |-> status, val |-> val]

Init ==
  /\ sessions = [id \in AllIds |-> NoRef]
  /\ heap = [r \in Refs |-> NullSession]
  /\ now = 0
  /\ uuidCount = 0
  /\ turn = [t \in Turns |-> IdleTurn]
  /\ goc = [c \in Callers |-> IdleCaller]
  /\ sweeper = StartedSweeper
  /\ lastOp = Op("init", NoneId, "", NoneId, 0, FALSE, 0, <<>>)

\* Writes a memory back to the variables, freeing what nothing refers to.
Store(M, tn) ==
  /\ sessions' = M.sessions
  /\ heap' = Collect(M.sessions, M.heap, tn)
  /\ uuidCount' = M.uuidCount

\* ---------------------------------------------- SessionService operations
\* SessionService.create_session (POST /sessions calls it with no id)
CreateSession(session_id) ==
  /\ Fits(Mem, session_id)
  /\ LET r == create_session(Mem, session_id, now)
     IN /\ Store(r.mem, turn)
        /\ lastOp' = Op("create_session", session_id, r.exc,
                        IF r.exc = "" THEN r.id ELSE NoneId, 0, r.exc = "", 0, <<>>)
  /\ UNCHANGED <<now, turn, goc, sweeper>>

\* SessionService.get_or_create_session, run without suspension
GetOrCreate(session_id) ==
  /\ Creates(Mem, session_id) => Fits(Mem, session_id)
  /\ LET r == get_or_create_session(Mem, session_id, now)
     IN /\ Store(r.mem, turn)
        /\ lastOp' = Op("get_or_create_session", session_id, r.exc,
                        IF r.exc = "" THEN r.mem.heap[r.ref].session_id ELSE NoneId,
                        IF r.exc = "" THEN Len(r.mem.heap[r.ref].messages) ELSE 0,
                        r.exc = "", 0, <<>>)
  /\ UNCHANGED <<now, turn, goc, sweeper>>

\* SessionService.add_message
AddMessage(session_id, role, content, metadata) ==
  /\ sessions[session_id] # NoRef => Len(heap[sessions[session_id]].messages) < MaxMsgs
  /\ LET r == add_message(Mem, session_id, role, content, metadata, now)
     IN /\ Store(r.mem, turn)
        /\ lastOp' = Op("add_message", session_id, r.exc,
                        IF r.exc = "" THEN r.mem.heap[r.ref].session_id ELSE NoneId,
                        IF r.exc = "" THEN Len(r.mem.heap[r.ref].messages) ELSE 0,
                        r.exc = "", 0, <<Message(role, content, metadata, now)>>)
  /\ UNCHANGED <<now, turn, goc, sweeper>>

\* GET /sessions/{session_id}/history
GetHistory(session_id) ==
  /\ LET r == Service_get_conversation_history(Mem, session_id)
     IN lastOp' = Op("get_session_history", session_id, r.exc, NoneId,
                     Len(r.ret), r.exc = "",
                     IF r.exc = "" THEN 200 ELSE 404, r.ret)
  /\ UNCHANGED <<sessions, heap, now, uuidCount, turn, goc, sweeper>>

\* DELETE /sessions/{session_id}
DeleteSession(session_id) ==
  /\ LET r == delete_session(Mem, session_id)
     IN /\ Store(r.mem, turn)
        /\ lastOp' = Op("delete_session", session_id, "", NoneId, 0, r.ret,
                        IF r.ret THEN 200 ELSE 404, <<>>)
  /\ UNCHANGED <<now, turn, goc, sweeper>>

\* SessionService.cleanup_expired_sessions (one iteration of the sweeper, or a
\* direct call)
\* InMemorySessionStorage.get_session, called directly: the session or None
GetSession(session_id) ==
  /\ LET session == Storage_get_session(Mem, session_id)
     IN lastOp' = Op("storage_get_session", session_id, "",
                     IF session = NoRef THEN NoneId ELSE heap[session].session_id,
                     IF session = NoRef THEN 0 ELSE Len(heap[session].messages),
                     session # NoRef, 0, <<>>)
  /\ UNCHANGED <<sessions, heap, now, uuidCount, turn, goc, sweeper>>

\* the sessions a direct caller of the storage passes to update_session
UpdateSessions ==
  [session_id : {"a", Uuid(1)},
   messages : {<<>>, <<Message("user", <<"q">>, "None", 0)>>,
               <<Message("user", <<"w">>, "None", 0)>>},
   created_at : {0}, updated_at : {0}]

\* InMemorySessionStorage.update_session(session), called directly.  The
\* object passed is r: the object stored under the id, which its holder has
\* brought to the state `session`, or an object of the caller's own.
UpdateSession(r, session) ==
  /\ r \in FreeRefs(heap) \/ sessions[session.session_id] = r
  /\ LET M1 == [Mem EXCEPT !.heap[r] = session]
         M2 == Storage_update_session(M1, r)
     IN /\ Store(M2, turn)
        /\ lastOp' = Op("update_session", session.session_id, "", session.session_id,
                        Len(session.messages), TRUE, 0, <<session>>)
  /\ UNCHANGED <<now, turn, goc, sweeper>>

Cleanup(max_age_hours) ==
  /\ LET r == cleanup_expired_sessions(Mem, max_age_hours, now)
     IN /\ Store(r.mem, turn)
        /\ lastOp' = Op("cleanup_expired_sessions", NoneId, "", NoneId, r.ret,
                        TRUE, 0, <<max_age_hours>>)
  /\ UNCHANGED <<now, turn, goc, sweeper>>

\* an hour passes
Tick ==
  /\ now < MaxTime
  /\ now' = now + 1
  /\ lastOp' = Op("tick", NoneId, "", NoneId, 0, FALSE, 0, <<>>)
  /\ UNCHANGED <<sessions, heap, uuidCount, turn, goc, sweeper>>

\* ----------------------------------------------------------------- sweeper
\* mutant: the exception of a failed sweep leaves the loop and ends the task
cleanup_sessions_Uncaught(M, sw, fails, max_age_hours, t) ==
  IF fails
    THEN [mem |-> M, exc |-> "SweepFailure", ret |-> 0,
          sweeper |-> [sw EXCEPT !.pc = "dead"]]
    ELSE LET r == cleanup_expired_sessions(M, max_age_hours, t)
         IN [mem |-> r.mem, exc |-> "", ret |-> r.ret,
             sweeper |-> [sw EXCEPT !.pc = "sleep"]]

\* mutant: the task returns after its first sweep instead of sleeping and
\* going round the loop
cleanup_sessions_NoLoop(M, sw, fails, max_age_hours, t) ==
  IF fails
    THEN [mem |-> M, exc |-> "SweepFailure", ret |-> 0,
          sweeper |-> [sw EXCEPT !.pc = "dead", !.logged = TRUE]]
    ELSE LET r == cleanup_expired_sessions(M, max_age_hours, t)
         IN [mem |-> r.mem, exc |-> "", ret |-> r.ret,
             sweeper |-> [sw EXCEPT !.pc = "dead"]]

\* cleanup_sessions, one iteration of `while True` up to its sleep: the sweep
\* either raises (a storage that fails), which `except Exception` logs, or
\* returns the number of sessions removed; then the task sleeps
cleanup_sessions(M, sw, fails, max_age_hours, t) ==
  IF fails
    THEN [mem |-> M, exc |-> "SweepFailure", ret |-> 0,
          sweeper |-> [sw EXCEPT !.pc = "sleep", !.logged = TRUE]]
    ELSE LET r == cleanup_expired_sessions(M, max_age_hours, t)
         IN [mem |-> r.mem, exc |-> "", ret |-> r.ret,
             sweeper |-> [sw EXCEPT !.pc = "sleep"]]

\* the sweeper task runs one sweep with settings.session_timeout_hours
SweeperSweep(fails, max_age_hours) ==
  /\ sweeper.pc \in {"sweep", "sweeping"}
  /\ sweeper.shutdown # "cancel"
  /\ LET r == cleanup_sessions(Mem, sweeper, fails, max_age_hours, now)
     IN /\ Store(r.mem, turn)
        /\ sweeper' = r.sweeper
        /\ lastOp' = Op("sweeper_sweep", NoneId, r.exc, NoneId, r.ret,
                        r.exc = "", 0, <<max_age_hours>>)
  /\ UNCHANGED <<now, turn, goc>>

\* asyncio.sleep(3600) returns and the loop goes round (how long the sleep
\* lasted on the clock is not modelled)
SweeperWake ==
  /\ sweeper.pc = "sleep"
  /\ sweeper.shutdown # "cancel"
  /\ sweeper' = [sweeper EXCEPT !.pc = "sweep"]
  /\ lastOp' = Op("sweeper_wake", NoneId, "", NoneId, 0, FALSE, 0, <<>>)
  /\ UNCHANGED <<sessions, heap, now, uuidCount, turn, goc>>

\* the sweep awaits a storage whose coroutine suspends: the task waits inside
\* the try block (the in-memory storage never suspends there)
SweeperEnter ==
  /\ sweeper.pc = "sweep"
  /\ sweeper.shutdown # "cancel"
  /\ sweeper' = [sweeper EXCEPT !.pc = "sweeping"]
  /\ lastOp' = Op("sweeper_enter", NoneId, "", NoneId, 0, FALSE, 0, <<>>)
  /\ UNCHANGED <<sessions, heap, now, uuidCount, turn, goc>>

\* shutdown: cleanup_task.cancel(); lifespan then awaits the task
Shutdown ==
  /\ sweeper.shutdown = "no"
  /\ sweeper' = [sweeper EXCEPT !.shutdown = "cancel"]
  /\ lastOp' = Op("shutdown", NoneId, "", NoneId, 0, FALSE, 0, <<>>)
  /\ UNCHANGED <<sessions, heap, now, uuidCount, turn, goc>>

\* mutant: the CancelledError raised inside the sweep is caught by the loop's
\* except branch, which logs it and goes on to sleep
cancel_delivered_Caught(sw) ==
  IF sw.pc = "sweeping"
    THEN [sw EXCEPT !.pc = "sleep", !.logged = TRUE, !.shutdown = "await"]
    ELSE [sw EXCEPT !.pc = "cancelled", !.shutdown = "await"]

\* the task is resumed with CancelledError where it waits: in the sleep, which
\* is outside the try block; inside the sweep, where `except Exception` does
\* not catch it (CancelledError is a BaseException); or before its first step.
\* The exception leaves cleanup_sessions and the task is done.
cancel_delivered(sw) == [sw EXCEPT !.pc = "cancelled", !.shutdown = "await"]

SweeperCancelled ==
  /\ sweeper.shutdown = "cancel"
  /\ sweeper' = cancel_delivered(sweeper)
  /\ lastOp' = Op("sweeper_cancelled", sweeper.pc, "", NoneId, 0, FALSE, 0, <<>>)
  /\ UNCHANGED <<sessions, heap, now, uuidCount, turn, goc>>

\* `await cleanup_task` raises the task's CancelledError, which lifespan
\* catches and passes: shutdown returns without raising
ShutdownDone ==
  /\ sweeper.shutdown = "await"
  /\ sweeper.pc = "cancelled"
  /\ sweeper' = [sweeper EXCEPT !.shutdown = "done"]
  /\ lastOp' = Op("shutdown_done", NoneId, "", NoneId, 0, TRUE, 0, <<>>)
  /\ UNCHANGED <<sessions, heap, now, uuidCount, turn, goc>>

\* ------------------------------------------------------------ AgentService
\* str.split(): the maximal runs of non-whitespace atoms
RECURSIVE SplitAcc(_, _, _, _)
SplitAcc(text, i, cur, acc) ==
  IF i > Len(text)
    THEN IF cur = <<>> THEN acc ELSE Append(acc, cur)
    ELSE IF text[i] = " "
           THEN SplitAcc(text, i + 1, <<>>, IF cur = <<>> THEN acc ELSE Append(acc, cur))
           ELSE SplitAcc(text, i + 1, Append(cur, text[i]), acc)
Split(text) == SplitAcc(text, 1, <<>>, <<>>)

\* the fragments _process_with_agent_stream yields: word + " "
Fragment(word) == word \o <<" ">>

\* file_data: none, a document whose text can be extracted, or one that raises
NoFile == [present |-> FALSE, ok |-> FALSE, text |-> <<>>]
Files == {NoFile,
          [present |-> TRUE, ok |-> TRUE, text |-> <<"cv">>],
          [present |-> TRUE, ok |-> FALSE, text |-> <<>>]}

\* the query sent on: the template around the extracted text, the query with
\* the failure note, or the query itself
EnhancedQuery(query, file_data) ==
  IF ~file_data.present THEN query
  ELSE IF file_data.ok
         THEN <<"CURRICULO:">> \o file_data.text \o <<"PERGUNTA:">> \o query
              \o <<"Por favor">>
         ELSE query \o <<"(Nota: erro no arquivo)">>

\* what _process_with_agent does: it raises, or returns the whole response
Outcomes == {[raises |-> TRUE, text |-> <<>>]}
            \cup {[raises |-> FALSE, text |-> x] : x \in Responses}

Event(type, content, session_id, n, error) ==
  [type |-> type, content |-> content, session_id |-> session_id,
   conversation_length |-> n, error |-> error]

\* the generator has returned: its locals are gone
Finished(tr, ev) ==
  [tr EXCEPT !.pc = "done", !.session = NoRef, !.enhanced_query = <<>>,
             !.pending = <<>>, !.full_response = <<>>,
             !.events = Append(tr.events, ev)]

\* mutant: the assistant message is written after the turn's own user
\* message, over whatever was appended since (last writer wins)
Complete_LastWriter(M, tr, t) ==
  LET a == add_message(M, tr.session_id, "assistant", tr.full_response, AgentName, t)
  IN IF a.exc # ""
       THEN [mem |-> a.mem, turn |-> Finished(tr, Event("error", <<>>, NoneId, 0, a.exc))]
       ELSE LET m == M.heap[a.ref].messages
                own == {i \in DOMAIN m : m[i].role = "user"
                                         /\ m[i].content = tr.enhanced_query}
                i == IF own = {} THEN Len(m) ELSE Min(own)
                msgs == Append(SubSeq(m, 1, i),
                               Message("assistant", tr.full_response, AgentName, t))
            IN [mem |-> [a.mem EXCEPT !.heap[a.ref].messages = msgs],
                turn |-> Finished(tr, Event("complete", <<>>, tr.session_id,
                                             Len(msgs), ""))]

\* mutant: the complete event carries the id the request gave
Complete_GivenId(M, tr, t) ==
  LET a == add_message(M, tr.session_id, "assistant", tr.full_response, AgentName, t)
  IN IF a.exc # ""
       THEN [mem |-> a.mem, turn |-> Finished(tr, Event("error", <<>>, NoneId, 0, a.exc))]
       ELSE [mem |-> a.mem,
             turn |-> Finished(tr, Event("complete", <<>>, tr.given,
                                          Len(a.mem.heap[tr.session].messages), ""))]

\* mutant: the complete event is sent, the assistant message is not persisted
Complete_NoPersist(M, tr, t) ==
  [mem |-> M,
   turn |-> Finished(tr, Event("complete", <<>>, tr.session_id,
                                Len(M.heap[tr.session].messages), ""))]

\* mutant: the complete event is followed by an error event
Complete_ThenError(M, tr, t) ==
  LET a == add_message(M, tr.session_id, "assistant", tr.full_response, AgentName, t)
      tr1 == [tr EXCEPT !.events =
                Append(tr.events, Event("complete", <<>>, tr.session_id,
                                        Len(a.mem.heap[tr.session].messages), ""))]
  IN [mem |-> a.mem, turn |-> Finished(tr1, Event("error", <<>>, NoneId, 0, a.exc))]

\* process_query_stream from `add complete response to session` on
Complete(M, tr, t) ==
  LET a == add_message(M, tr.session_id, "assistant", tr.full_response, AgentName, t)
  IN IF a.exc # ""
       THEN [mem |-> a.mem, turn |-> Finished(tr, Event("error", <<>>, NoneId, 0, a.exc))]
       ELSE [mem |-> a.mem,
             turn |-> Finished(tr, Event("complete", <<>>, tr.session_id,
                                          Len(a.mem.heap[tr.session].messages), ""))]

\* mutant: a failure of the completion service is recorded in the session as
\* the assistant's answer before the error event is emitted
Stream_ErrorPersisted(M, tr, outcome, t) ==
  LET words == Split(outcome.text)
  IN IF outcome.raises
       THEN [mem |-> add_message(M, tr.session_id, "assistant", <<>>, AgentName, t).mem,
             turn |-> Finished(tr, Event("error", <<>>, NoneId, 0, "UpstreamFailure"))]
     ELSE IF words = <<>>
       THEN Complete(M, tr, t)
     ELSE [mem |-> M,
           turn |-> [tr EXCEPT
             !.pc = "streaming",
             !.pending = Tail(words),
             !.full_response = Fragment(Head(words)),
             !.events = Append(tr.events,
                          Event("chunk", Fragment(Head(words)), tr.session_id, 0, ""))]]

\* mutant: a completion without fragments is reported as an error
Stream_EmptyIsError(M, tr, outcome, t) ==
  LET words == Split(outcome.text)
  IN IF outcome.raises \/ words = <<>>
       THEN [mem |-> M,
             turn |-> Finished(tr, Event("error", <<>>, NoneId, 0, "UpstreamFailure"))]
     ELSE [mem |-> M,
           turn |-> [tr EXCEPT
             !.pc = "streaming",
             !.pending = Tail(words),
             !.full_response = Fragment(Head(words)),
             !.events = Append(tr.events,
                          Event("chunk", Fragment(Head(words)), tr.session_id, 0, ""))]]

\* mutant: an exception of the completion service is swallowed, the turn goes
\* on as after an exhausted stream
Stream_Swallow(M, tr, outcome, t) ==
  LET words == IF outcome.raises THEN <<>> ELSE Split(outcome.text)
  IN IF words = <<>>
       THEN Complete(M, tr, t)
     ELSE [mem |-> M,
           turn |-> [tr EXCEPT
             !.pc = "streaming",
             !.pending = Tail(words),
             !.full_response = Fragment(Head(words)),
             !.events = Append(tr.events,
                          Event("chunk", Fragment(Head(words)), tr.session_id, 0, ""))]]

\* process_query_stream from `stream response from agent` to its next yield
Stream(M, tr, outcome, t) ==
  LET words == Split(outcome.text)
  IN IF outcome.raises
       THEN [mem |-> M,
             turn |-> Finished(tr, Event("error", <<>>, NoneId, 0, "UpstreamFailure"))]
     ELSE IF words = <<>>
       THEN Complete(M, tr, t)
     ELSE [mem |-> M,
           turn |-> [tr EXCEPT
             !.pc = "streaming",
             !.pending = Tail(words),
             !.full_response = Fragment(Head(words)),
             !.events = Append(tr.events,
                          Event("chunk", Fragment(Head(words)), tr.session_id, 0, ""))]]

\* mutant: the completion service is invoked before the user message is
\* persisted
Begin_InvokeFirst(M, tr, query, session_id, metadata, file_data, outcome, t) ==
  LET g == get_or_create_session(M, session_id, t)
  IN IF g.exc # ""
       THEN [mem |-> g.mem,
             turn |-> Finished([tr EXCEPT !.given = session_id],
                               Event("error", <<>>, NoneId, 0, g.exc))]
       ELSE LET enhanced_query == EnhancedQuery(query, file_data)
                tr1 == [tr EXCEPT !.given = session_id, !.session = g.ref,
                                  !.session_id = g.id,
                                  !.enhanced_query = enhanced_query]
                a == add_message(g.mem, g.id, "user", enhanced_query, MetaOr(metadata), t)
            IN IF outcome.raises
                 THEN [mem |-> g.mem,
                       turn |-> Finished(tr1, Event("error", <<>>, NoneId, 0,
                                                    "UpstreamFailure"))]
                 ELSE Stream(a.mem, tr1, outcome, t)

\* mutant: the sweeper is scheduled between the resolution of the session and
\* the append of the user message
Begin_SweepBetween(M, tr, query, session_id, metadata, file_data, outcome, t) ==
  LET g == get_or_create_session(M, session_id, t)
  IN IF g.exc # ""
       THEN [mem |-> g.mem,
             turn |-> Finished([tr EXCEPT !.given = session_id],
                               Event("error", <<>>, NoneId, 0, g.exc))]
       ELSE LET enhanced_query == EnhancedQuery(query, file_data)
                swept == cleanup_expired_sessions(g.mem, 1, t).mem
                a == add_message(swept, g.id, "user", enhanced_query, MetaOr(metadata), t)
                tr1 == [tr EXCEPT !.given = session_id, !.session = g.ref,
                                  !.session_id = g.id,
                                  !.enhanced_query = enhanced_query]
            IN IF a.exc # ""
                 THEN [mem |-> a.mem,
                       turn |-> Finished(tr1, Event("error", <<>>, NoneId, 0, a.exc))]
                 ELSE Stream(a.mem, tr1, outcome, t)

\* mutant: a document whose extraction fails aborts the turn
Begin_FileAborts(M, tr, query, session_id, metadata, file_data, outcome, t) ==
  LET g == get_or_create_session(M, session_id, t)
  IN IF g.exc # ""
       THEN [mem |-> g.mem,
             turn |-> Finished([tr EXCEPT !.given = session_id],
                               Event("error", <<>>, NoneId, 0, g.exc))]
     ELSE IF file_data.present /\ ~file_data.ok
       THEN [mem |-> g.mem,
             turn |-> Finished([tr EXCEPT !.given = session_id],
                               Event("error", <<>>, NoneId, 0, "ExtractionFailure"))]
       ELSE LET enhanced_query == EnhancedQuery(query, file_data)
                a == add_message(g.mem, g.id, "user", enhanced_query, MetaOr(metadata), t)
                tr1 == [tr EXCEPT !.given = session_id, !.session = g.ref,
                                  !.session_id = g.id,
                                  !.enhanced_query = enhanced_query]
            IN IF a.exc # ""
                 THEN [mem |-> a.mem,
                       turn |-> Finished(tr1, Event("error", <<>>, NoneId, 0, a.exc))]
                 ELSE Stream(a.mem, tr1, outcome, t)

\* process_query_stream from its start to its first yield
Begin(M, tr, query, session_id, metadata, file_data, outcome, t) ==
  LET g == get_or_create_session(M, session_id, t)
  IN IF g.exc # ""
       THEN [mem |-> g.mem,
             turn |-> Finished([tr EXCEPT !.given = session_id],
                               Event("error", <<>>, NoneId, 0, g.exc))]
       ELSE LET enhanced_query == EnhancedQuery(query, file_data)
                a == add_message(g.mem, g.id, "user", enhanced_query, MetaOr(metadata), t)
                tr1 == [tr EXCEPT !.given = session_id, !.session = g.ref,
                                  !.session_id = g.id,
                                  !.enhanced_query = enhanced_query]
            IN IF a.exc # ""
                 THEN [mem |-> a.mem,
                       turn |-> Finished(tr1, Event("error", <<>>, NoneId, 0, a.exc))]
                 ELSE Stream(a.mem, tr1, outcome, t)

\* mutant: a fragment after the first is emitted but not accumulated
Resume_DropFragment(M, tr, t) ==
  IF tr.pending # <<>>
    THEN [mem |-> M,
          turn |-> [tr EXCEPT
            !.pending = Tail(tr.pending),
            !.events = Append(tr.events,
                         Event("chunk", Fragment(Head(tr.pending)), tr.session_id, 0, ""))]]
    ELSE Complete(M, tr, t)

\* process_query_stream resumed after a yield: the next fragment, or the end
Resume(M, tr, t) ==
  IF tr.pending # <<>>
    THEN [mem |-> M,
          turn |-> [tr EXCEPT
            !.pending = Tail(tr.pending),
            !.full_response = tr.full_response \o Fragment(Head(tr.pending)),
            !.events = Append(tr.events,
                         Event("chunk", Fragment(Head(tr.pending)), tr.session_id, 0, ""))]]
    ELSE Complete(M, tr, t)

\* -------------------------------------------------------------- transport
\* mutant: an error event produces no frame
Frame_NoError(ev) ==
  IF ev.type = "chunk"
    THEN <<[mime_type |-> "text/plain", data |-> ev.content,
            session_id |-> ev.session_id]>>
  ELSE IF ev.type = "complete"
    THEN <<[turn_complete |-> TRUE, interrupted |-> "None",
            session_id |-> ev.session_id,
            metadata |-> [agent_name |-> AgentName,
                          conversation_length |-> ev.conversation_length]]>>
  ELSE <<>>

\* stream_agent_response, the body of its loop: the frames written for one
\* event of the orchestrator (none for an event of another type)
Frame(ev) ==
  IF ev.type = "chunk"
    THEN <<[mime_type |-> "text/plain", data |-> ev.content,
            session_id |-> ev.session_id]>>
  ELSE IF ev.type = "complete"
    THEN <<[turn_complete |-> TRUE, interrupted |-> "None",
            session_id |-> ev.session_id,
            metadata |-> [agent_name |-> AgentName,
                          conversation_length |-> ev.conversation_length]]>>
  ELSE IF ev.type = "error"
    THEN <<[error |-> TRUE, message |-> ev.error, turn_complete |-> TRUE,
            interrupted |-> TRUE]>>
  ELSE <<>>

\* stream_agent_response over the events of a turn, in the order received
RECURSIVE stream_agent_response(_)
stream_agent_response(events) ==
  IF events = <<>> THEN <<>>
  ELSE Frame(Head(events)) \o stream_agent_response(Tail(events))

\* what invoking agent_service.process_query_stream can raise when it is
\* replaced by a callable that raises ("" for: it does not raise)
CallErrors == {"Test error"}

\* ask_agent when the invocation of process_query_stream raises exc.  The
\* handler only builds StreamingResponse(stream_agent_response(...)): calling
\* the async generator function runs none of its body, so nothing raises inside
\* the handler's try and the response starts with status 200.  The invocation
\* happens when the body is iterated, inside the try of stream_agent_response,
\* whose except branch writes one error frame.
ask_agent(exc) ==
  [status |-> 200,
   detail |-> "",
   frames |-> << [error |-> TRUE, message |-> <<"Streaming error: ", exc>>,
                  turn_complete |-> TRUE, interrupted |-> TRUE] >>]

\* POST /ask while the orchestrator's streaming operation raises on invocation
AskFails(t, exc) ==
  /\ turn[t].pc = "idle"
  /\ LET r == ask_agent(exc)
     IN lastOp' = Op("ask_agent", t, exc, NoneId, Len(r.frames), FALSE,
                     r.status, <<r.detail>> \o r.frames)
  /\ UNCHANGED <<sessions, heap, now, uuidCount, turn, goc, sweeper>>

\* POST /ask: the request starts a streaming turn
TurnStart(t, query, session_id, metadata, file_data, outcome) ==
  /\ turn[t].pc = "idle"
  /\ Creates(Mem, session_id) => Fits(Mem, session_id)
  /\ Room(Mem, session_id)
  /\ LET r == Begin(Mem, turn[t], query, session_id, metadata, file_data, outcome, now)
         tn == [turn EXCEPT ![t] = r.turn]
     IN /\ turn' = tn
        /\ Store(r.mem, tn)
        /\ lastOp' = Op("turn_start", t, "", r.turn.session_id,
                        Len(r.turn.events), outcome.raises, 0, query)
  /\ UNCHANGED <<now, goc, sweeper>>

\* a request on a session that is stored, however many messages it holds
TurnJoin(t, query, session_id, metadata, outcome) ==
  /\ turn[t].pc = "idle"
  /\ ~Creates(Mem, session_id)
  /\ LET r == Begin(Mem, turn[t], query, session_id, metadata, NoFile, outcome, now)
         tn == [turn EXCEPT ![t] = r.turn]
     IN /\ turn' = tn
        /\ Store(r.mem, tn)
        /\ lastOp' = Op("turn_start", t, "", r.turn.session_id,
                        Len(r.turn.events), outcome.raises, 0, query)
  /\ UNCHANGED <<now, goc, sweeper>>

\* the client takes the next event
TurnResume(t) ==
  /\ turn[t].pc = "streaming"
  /\ LET r == Resume(Mem, turn[t], now)
         tn == [turn EXCEPT ![t] = r.turn]
     IN /\ turn' = tn
        /\ Store(r.mem, tn)
        /\ lastOp' = Op("turn_resume", t, "", r.turn.session_id,
                        Len(r.turn.events), FALSE, 0, <<>>)
  /\ UNCHANGED <<now, goc, sweeper>>

\* mutant: a generator that is closed persists what it has accumulated
Close_Persist(M, tr, t) ==
  LET a == add_message(M, tr.session_id, "assistant", tr.full_response, AgentName, t)
  IN [mem |-> a.mem, turn |-> IdleTurn]

\* process_query_stream closed where it is suspended, at the yield of a chunk
\* or in the sleep that follows it: GeneratorExit or CancelledError is raised
\* there, `except Exception` catches neither, and no statement after the loop
\* runs.  The generator's locals are gone.
Close(M, tr, t) == [mem |-> M, turn |-> IdleTurn]

\* the client stops reading after a chunk: the stream is closed
TurnAbandon(t) ==
  /\ turn[t].pc = "streaming"
  /\ LET r == Close(Mem, turn[t], now)
         tn == [turn EXCEPT ![t] = r.turn]
     IN /\ turn' = tn
        /\ Store(r.mem, tn)
        /\ lastOp' = Op("turn_abandon", t, "", turn[t].session_id,
                        Len(turn[t].events), FALSE, 0, turn[t].enhanced_query)
  /\ UNCHANGED <<now, goc, sweeper>>

\* the client has read the stream to its end; the slot serves the next request
TurnReset(t) ==
  /\ turn[t].pc = "done"
  /\ turn' = [turn EXCEPT ![t] = IdleTurn]
  /\ lastOp' = Op("turn_reset", t, "", NoneId, 0, FALSE, 0, <<>>)
  /\ UNCHANGED <<sessions, heap, now, uuidCount, goc, sweeper>>

\* AgentService.process_query: no await in it suspends, it is one step.  It
\* returns an AgentResponse or re-raises.
Query(M, query, session_id, metadata, outcome, t) ==
  LET g == get_or_create_session(M, session_id, t)
  IN IF g.exc # "" THEN [mem |-> g.mem, exc |-> g.exc, sid |-> NoneId, n |-> 0]
     ELSE LET a == add_message(g.mem, g.id, "user", query, MetaOr(metadata), t)
          IN IF a.exc # "" THEN [mem |-> a.mem, exc |-> a.exc, sid |-> NoneId, n |-> 0]
             ELSE IF outcome.raises
               THEN [mem |-> a.mem, exc |-> "UpstreamFailure", sid |-> NoneId, n |-> 0]
             ELSE LET b == add_message(a.mem, g.id, "assistant", outcome.text, AgentName, t)
                  IN IF b.exc # ""
                       THEN [mem |-> b.mem, exc |-> b.exc, sid |-> NoneId, n |-> 0]
                       ELSE [mem |-> b.mem, exc |-> "", sid |-> g.id,
                             n |-> Len(b.mem.heap[g.ref].messages)]

ProcessQuery(query, session_id, metadata, outcome) ==
  /\ Creates(Mem, session_id) => Fits(Mem, session_id)
  /\ Room(Mem, session_id)
  /\ LET r == Query(Mem, query, session_id, metadata, outcome, now)
     IN /\ Store(r.mem, turn)
        /\ lastOp' = Op("process_query", session_id, r.exc, r.sid, r.n,
                        r.exc = "", 0, query)
  /\ UNCHANGED <<now, turn, goc, sweeper>>

\* ------------------------------------------------------ context builder
\* "\n".join(parts)
RECURSIVE Join(_)
Join(parts) ==
  IF parts = <<>> THEN <<>>
  ELSE IF Len(parts) = 1 THEN parts[1]
  ELSE parts[1] \o <<"\n">> \o Join(Tail(parts))

role_pt(role) == IF role = "user" THEN "Usuario" ELSE "Assistente"

\* the number of most recent history entries the builder looks at
window == 10

\* mutant: the whole history is used, however long
_build_context_from_history_NoWindow(history, current_query) ==
  IF history = <<>> THEN current_query
  ELSE LET recent_history == history
           k == Len(recent_history)
           context_parts ==
             IF k > 1
               THEN << <<"Contexto da conversa anterior:">> >>
                    \o [i \in 1..(k - 1) |->
                          <<role_pt(recent_history[i].role), ": ">>
                            \o recent_history[i].content]
                    \o << <<"\n", "Pergunta atual:">> >>
               ELSE <<>>
       IN Join(Append(context_parts, current_query))

\* mutant: the last entry of the history, the current message, is kept
_build_context_from_history_KeepLast(history, current_query) ==
  IF history = <<>> THEN current_query
  ELSE LET n == Len(history)
           recent_history == IF n > window THEN SubSeq(history, n - window + 1, n)
                             ELSE history
           k == Len(recent_history)
           context_parts ==
             IF k > 1
               THEN << <<"Contexto da conversa anterior:">> >>
                    \o [i \in 1..k |->
                          <<role_pt(recent_history[i].role), ": ">>
                            \o recent_history[i].content]
                    \o << <<"\n", "Pergunta atual:">> >>
               ELSE <<>>
       IN Join(Append(context_parts, current_query))

\* mutant: the header and the marker are written for a history of one entry
_build_context_from_history_Header(history, current_query) ==
  IF history = <<>> THEN current_query
  ELSE LET n == Len(history)
           recent_history == IF n > window THEN SubSeq(history, n - window + 1, n)
                             ELSE history
           k == Len(recent_history)
           context_parts ==
             << <<"Contexto da conversa anterior:">> >>
             \o [i \in 1..(k - 1) |->
                   <<role_pt(recent_history[i].role), ": ">>
                     \o recent_history[i].content]
             \o << <<"\n", "Pergunta atual:">> >>
       IN Join(Append(context_parts, current_query))

\* AgentService._build_context_from_history: the text handed to the
\* completion service, the parts joined by newlines
_build_context_from_history(history, current_query) ==
  IF history = <<>> THEN current_query
  ELSE LET n == Len(history)
           recent_history == IF n > window THEN SubSeq(history, n - window + 1, n)
                             ELSE history
           k == Len(recent_history)
           context_parts ==
             IF k > 1
               THEN << <<"Contexto da conversa anterior:">> >>
                    \o [i \in 1..(k - 1) |->
                          <<role_pt(recent_history[i].role), ": ">>
                            \o recent_history[i].content]
                    \o << <<"\n", "Pergunta atual:">> >>
               ELSE <<>>
       IN Join(Append(context_parts, current_query))

ContextQueries == {<<"q">>, <<"q", " ", "w">>}

\* the builder applied to the history of a stored session and a query
BuildContext(session_id, current_query) ==
  /\ sessions[session_id] # NoRef
  /\ LET history == get_conversation_history(heap[sessions[session_id]])
     IN lastOp' = Op("build_context", session_id, "", session_id, Len(history),
                     TRUE, 0, _build_context_from_history(history, current_query))
  /\ UNCHANGED <<sessions, heap, now, uuidCount, turn, goc, sweeper>>

\* an append that grows a history up to MaxHistory entries; the content of an
\* entry is its position
ContextAppend(session_id, role) ==
  /\ sessions[session_id] # NoRef
  /\ Len(heap[sessions[session_id]].messages) < MaxHistory
  /\ LET content == <<ToString(Len(heap[sessions[session_id]].messages) + 1)>>
         r == add_message(Mem, session_id, role, content, "None", now)
     IN /\ Store(r.mem, turn)
        /\ lastOp' = Op("add_message", session_id, r.exc, session_id,
                        Len(r.mem.heap[r.ref].messages), r.exc = "", 0,
                        <<Message(role, content, "None", now)>>)
  /\ UNCHANGED <<now, turn, goc, sweeper>>

\* ---------------------------------------------------------- POST /ask
\* The number of characters of a text.  An atom stands for one character,
\* the atom "x2000" for a run of two thousand.
CharLen(atom) == IF atom = "x2000" THEN 2000 ELSE 1
RECURSIVE StrLen(_)
StrLen(text) == IF text = <<>> THEN 0 ELSE CharLen(Head(text)) + StrLen(Tail(text))

min_length == 1
max_length == 2000

\* the JSON bodies of POST /ask: `file` is a member the client may add
AskQueries == {<<>>, <<"q">>, <<"x2000">>, <<"x2000", "q">>}
Bodies == [query : AskQueries, session_id : {"a", NoneId}, file : Files]

\* mutant: the longest query is refused, one character early
QueryRequest_Short(body) ==
  IF StrLen(body.query) >= min_length /\ StrLen(body.query) < max_length
    THEN [valid |-> TRUE, query |-> body.query, session_id |-> body.session_id,
          metadata |-> "{}"]
    ELSE [valid |-> FALSE, query |-> <<>>, session_id |-> NoneId, metadata |-> "{}"]

\* mutant: the empty query is accepted
QueryRequest_NoMin(body) ==
  IF StrLen(body.query) <= max_length
    THEN [valid |-> TRUE, query |-> body.query, session_id |-> body.session_id,
          metadata |-> "{}"]
    ELSE [valid |-> FALSE, query |-> <<>>, session_id |-> NoneId, metadata |-> "{}"]

\* QueryRequest: the body is validated before ask_agent is called.  The model
\* has the fields query, session_id and metadata (here its default); a member
\* of the body that is not a field of the model is dropped.
QueryRequest(body) ==
  IF StrLen(body.query) >= min_length /\ StrLen(body.query) <= max_length
    THEN [valid |-> TRUE, query |-> body.query, session_id |-> body.session_id,
          metadata |-> "{}"]
    ELSE [valid |-> FALSE, query |-> <<>>, session_id |-> NoneId, metadata |-> "{}"]

\* POST /ask with a JSON body.  A body that fails validation is answered 422
\* and ask_agent is not called.  Otherwise ask_agent answers 200 with the
\* stream of stream_agent_response, which calls
\* process_query_stream(request.query, request.session_id, request.metadata):
\* no file_data is passed.  The step runs the turn to its first event.
AskAgent(t, body, outcome) ==
  LET request == QueryRequest(body)
  IN IF ~request.valid
       THEN /\ lastOp' = Op("post_ask", t, "RequestValidationError", NoneId, 0,
                            FALSE, 422, body.query)
            /\ UNCHANGED <<sessions, heap, now, uuidCount, turn, goc, sweeper>>
       ELSE /\ turn[t].pc = "idle"
            /\ Creates(Mem, request.session_id) => Fits(Mem, request.session_id)
            /\ Room(Mem, request.session_id)
            /\ LET r == Begin(Mem, turn[t], request.query, request.session_id,
                              request.metadata, NoFile, outcome, now)
                   tn == [turn EXCEPT ![t] = r.turn]
               IN /\ turn' = tn
                  /\ Store(r.mem, tn)
                  /\ lastOp' = Op("post_ask", t, "", r.turn.session_id,
                                  Len(r.turn.events), outcome.raises, 200, body.query)
            /\ UNCHANGED <<now, goc, sweeper>>

\* The SessionService operations in any order, the clock standing still.
ManagerNext ==
  \/ \E id \in GivenIds \cup {NoneId} : CreateSession(id)
  \/ \E id \in GivenIds \cup {NoneId} : GetOrCreate(id)
  \/ \E id \in GivenIds, m \in Appends :
       AddMessage(id, m.role, m.content, m.metadata)
  \/ \E id \in GivenIds : GetHistory(id)
  \/ \E id \in GivenIds : DeleteSession(id)

SpecManager == Init /\ [][ManagerNext]_vars

\* The SessionService operations, the sweeps and the clock; every append is the
\* same user message.
SweepNext ==
  \/ \E id \in GivenIds \cup {NoneId} : CreateSession(id)
  \/ \E id \in GivenIds \cup {NoneId} : GetOrCreate(id)
  \/ \E id \in GivenIds : AddMessage(id, "user", <<"q">>, "None")
  \/ \E id \in GivenIds : GetHistory(id)
  \/ \E id \in GivenIds : DeleteSession(id)
  \/ \E h \in SessionTimeouts : Cleanup(h)
  \/ Tick

SpecSweep == Init /\ [][SweepNext]_vars

\* The requests, in any interleaving; one request streams at a time.
Slots == {"t1"}
Next ==
  \/ \E id \in GivenIds \cup {NoneId} : CreateSession(id)
  \/ \E id \in GivenIds \cup {NoneId} : GetOrCreate(id)
  \/ \E id \in GivenIds : GetHistory(id)
  \/ \E id \in GivenIds : DeleteSession(id)
  \/ \E t \in Slots, query \in Queries, id \in GivenIds \cup {NoneId},
        outcome \in Outcomes :
       TurnStart(t, query, id, "{}", NoFile, outcome)
  \/ \E t \in Slots : TurnResume(t)
  \/ \E t \in Slots : TurnReset(t)
  \/ \E query \in Queries, id \in GivenIds \cup {NoneId}, outcome \in Outcomes :
       ProcessQuery(query, id, "{}", outcome)

Spec == Init /\ [][Next]_vars

\* The requests of clients that wait for the end of a turn before they send the
\* next request on its session.
Busy(id) == \E t \in Turns : turn[t].pc = "streaming" /\ turn[t].session_id = id
SeqNext ==
  \/ \E id \in GivenIds \cup {NoneId} : ~Busy(id) /\ CreateSession(id)
  \/ \E id \in GivenIds : ~Busy(id) /\ GetHistory(id)
  \/ \E id \in GivenIds : ~Busy(id) /\ DeleteSession(id)
  \/ \E t \in Slots, query \in Queries, id \in GivenIds \cup {NoneId},
        outcome \in Outcomes :
       TurnStart(t, query, id, "{}", NoFile, outcome)
  \/ \E t \in Slots : TurnResume(t)
  \/ \E t \in Slots : TurnReset(t)
  \/ \E query \in Queries, id \in GivenIds \cup {NoneId}, outcome \in Outcomes :
       ~Busy(id) /\ ProcessQuery(query, id, "{}", outcome)

SpecSeq == Init /\ [][SeqNext]_vars

\* Two streaming turns on the session id "a", its deletion, the sweeps and the
\* clock, in any interleaving.
TurnsNext ==
  \/ \E t \in Turns, query \in Queries, outcome \in Outcomes :
       TurnStart(t, query, "a", "{}", NoFile, outcome)
  \/ \E t \in Turns : TurnResume(t)
  \/ \E t \in Turns : TurnReset(t)
  \/ DeleteSession("a")
  \/ \E h \in SessionTimeouts : Cleanup(h)
  \/ Tick

SpecTurns == Init /\ [][TurnsNext]_vars

\* POST /ask alone: streaming turns, and requests for which the orchestrator's
\* streaming operation raises when it is invoked.
AskNext ==
  \/ \E t \in Slots, query \in Queries, id \in GivenIds \cup {NoneId},
        outcome \in Outcomes :
       TurnStart(t, query, id, "{}", NoFile, outcome)
  \/ \E t \in Slots : TurnResume(t)
  \/ \E t \in Slots : TurnReset(t)
  \/ \E t \in Slots, exc \in CallErrors : AskFails(t, exc)

SpecAsk == Init /\ [][AskNext]_vars

\* The sweeper task next to the creation of sessions, appends to the session
\* "a" and the clock.  The
\* event loop runs a task that is ready: the sweep of a woken task, the
\* return of its sleep and the delivery of a cancellation are taken eventually,
\* and so is the return of lifespan once the task it awaits is done.
SweeperStep ==
  \/ \E fails \in BOOLEAN, h \in SessionTimeouts : SweeperSweep(fails, h)
  \/ SweeperWake
  \/ SweeperCancelled
SweeperNext ==
  \/ \E id \in {"a", NoneId} : CreateSession(id)
  \/ AddMessage("a", "user", <<"q">>, "None")
  \/ Tick
  \/ SweeperStep
  \/ SweeperEnter
  \/ Shutdown
  \/ ShutdownDone

SpecSweeper ==
  Init /\ [][SweeperNext]_vars /\ WF_vars(SweeperStep) /\ WF_vars(ShutdownDone)

\* The orchestrator called directly, with and without a document, on the
\* session "a" or on a new one; the session "a" may be deleted meanwhile.
FilesNext ==
  \/ \E t \in Slots, query \in Queries, id \in {"a", NoneId}, file_data \in Files,
        outcome \in Outcomes :
       TurnStart(t, query, id, "{}", file_data, outcome)
  \/ \E t \in Slots : TurnResume(t)
  \/ \E t \in Slots : TurnReset(t)
  \/ DeleteSession("a")

SpecFiles == Init /\ [][FilesNext]_vars

\* The context builder applied to every history of up to MaxHistory entries.
ContextNext ==
  \/ CreateSession("a")
  \/ \E role \in Roles : ContextAppend("a", role)
  \/ \E query \in ContextQueries : BuildContext("a", query)

SpecContext == Init /\ [][ContextNext]_vars

\* Streaming turns that the client reads to the end or leaves after a chunk,
\* next to reads and deletions of the session "a".
AbandonNext ==
  \/ \E t \in Slots, query \in Queries, id \in {"a", NoneId}, outcome \in Outcomes :
       TurnStart(t, query, id, "{}", NoFile, outcome)
  \/ \E t \in Slots : TurnResume(t)
  \/ \E t \in Slots : TurnAbandon(t)
  \/ \E t \in Slots : TurnReset(t)
  \/ GetHistory("a")
  \/ DeleteSession("a")

SpecAbandon == Init /\ [][AbandonNext]_vars

\* Sweeps interleaved with a streaming turn and with creations, appends, reads
\* and deletions on two sessions, "a" and a generated one.
TwoIds == {"a", Uuid(1)}
ConcurrentNext ==
  \/ CreateSession("a")
  \/ AddMessage("a", "user", <<"q">>, "None")
  \/ \E id \in TwoIds : GetHistory(id)
  \/ \E id \in TwoIds : DeleteSession(id)
  \/ \E t \in Slots, query \in Queries, id \in {"a", NoneId}, outcome \in Outcomes :
       TurnStart(t, query, id, "{}", NoFile, outcome)
  \/ \E t \in Slots : TurnResume(t)
  \/ \E t \in Slots : TurnReset(t)
  \/ \E h \in SessionTimeouts : Cleanup(h)
  \/ Tick

SpecConcurrent == Init /\ [][ConcurrentNext]_vars

\* The storage's update_session called directly, next to creations, appends
\* and deletions.
UpdateNext ==
  \/ \E id \in {"a", NoneId} : CreateSession(id)
  \/ AddMessage("a", "user", <<"q">>, "None")
  \/ \E id \in TwoIds : DeleteSession(id)
  \/ \E r \in Refs, session \in UpdateSessions : UpdateSession(r, session)

SpecUpdate == Init /\ [][UpdateNext]_vars

\* Reads of the store (get, history, get_or_create) between creations, appends
\* and ticks of the clock.
ReadNext ==
  \/ \E id \in GivenIds : CreateSession(id)
  \/ \E id \in GivenIds : AddMessage(id, "user", <<"q">>, "None")
  \/ \E id \in AllIds : GetSession(id)
  \/ \E id \in GivenIds : GetHistory(id)
  \/ \E id \in GivenIds \cup {NoneId} : GetOrCreate(id)
  \/ Tick

SpecRead == Init /\ [][ReadNext]_vars

\* SessionService.add_message against a SessionStorage whose coroutines
\* suspend: the caller is rescheduled inside `await get_session` and inside
\* `await update_session`.  The slot t records the session the caller holds
\* meanwhile.
AppendGet(t, session_id) ==
  /\ turn[t].pc = "idle"
  /\ LET session == Storage_get_session(Mem, session_id)
     IN IF session = NoRef
          THEN /\ lastOp' = Op("append_get", session_id, "NotFound", NoneId, 0,
                               FALSE, 0, <<>>)
               /\ UNCHANGED turn
          ELSE /\ turn' = [turn EXCEPT ![t] =
                     [IdleTurn EXCEPT !.pc = "appending", !.given = session_id,
                                      !.session = session, !.session_id = session_id]]
               /\ lastOp' = Op("append_get", session_id, "", session_id,
                               Len(heap[session].messages), TRUE, 0, <<>>)
  /\ UNCHANGED <<sessions, heap, now, uuidCount, goc, sweeper>>

\* session.add_message(role, content, metadata), then the write of
\* update_session(session)
AppendUpdate(t, role, content, metadata) ==
  /\ turn[t].pc = "appending"
  /\ Len(heap[turn[t].session].messages) < MaxMsgs
  /\ LET session == turn[t].session
         M1 == [Mem EXCEPT !.heap[session] =
                  Session_add_message(Mem.heap[session], role, content, metadata, now)]
         M2 == Storage_update_session(M1, session)
         tn == [turn EXCEPT ![t] = IdleTurn]
     IN /\ turn' = tn
        /\ Store(M2, tn)
        /\ lastOp' = Op("append_update", turn[t].session_id, "", turn[t].session_id,
                        Len(M2.heap[session].messages), TRUE, 0,
                        <<Message(role, content, metadata, now)>>)
  /\ UNCHANGED <<now, goc, sweeper>>

\* Appends on such a storage, next to creations, deletions and sweeps of the
\* session "a".
AppendAwaitNext ==
  \/ CreateSession("a")
  \/ GetOrCreate("a")
  \/ \E t \in Turns : AppendGet(t, "a")
  \/ \E t \in Turns : AppendUpdate(t, "user", <<"q">>, "None")
  \/ DeleteSession("a")
  \/ \E h \in SessionTimeouts : Cleanup(h)
  \/ Tick

SpecAppendAwait == Init /\ [][AppendAwaitNext]_vars

\* Two requests on the stored session "a", one per slot, each with its own
\* query, streaming at the same time; the session holds no message or one
\* when the first of them arrives.
QueryOf(t) == IF t = "t1" THEN <<"q">> ELSE <<"w">>
SharedNext ==
  \/ CreateSession("a")
  \/ /\ \A t \in Turns : turn[t].pc = "idle"
     /\ sessions["a"] # NoRef /\ heap[sessions["a"]].messages = <<>>
     /\ AddMessage("a", "user", <<"x">>, "None")
  \/ \E t \in Turns, outcome \in Outcomes : TurnJoin(t, QueryOf(t), "a", "{}", outcome)
  \/ \E t \in Turns : TurnResume(t)
  \/ Tick

SpecShared == Init /\ [][SharedNext]_vars

\* One client that sends its next request when the stream of the last one has
\* ended: a first request with no session id or with the id "a", then further
\* requests on the session it was answered with, whether the completion
\* service raised or not.
RetryNext ==
  \/ \E query \in Queries, id \in {NoneId, "a"}, outcome \in Outcomes :
       TurnStart("t1", query, id, "{}", NoFile, outcome)
  \/ \E id \in TwoIds, outcome \in Outcomes :
       /\ sessions[id] # NoRef
       /\ Len(heap[sessions[id]].messages) < MaxMsgs
       /\ TurnJoin("t1", <<"w">>, id, "{}", outcome)
  \/ TurnResume("t1")
  \/ TurnReset("t1")
  \/ Tick

SpecRetry == Init /\ [][RetryNext]_vars

\* The sweeper task with the one timeout the process is configured with
\* (settings.session_timeout_hours, here the smallest the clock lets expire)
\* and a storage whose sweeps do not raise, next to the creation of sessions,
\* appends to the session "a", the clock and shutdown.  The event loop runs a
\* task that is ready: the sweep of a woken task and the return of its sleep
\* are taken eventually.
session_timeout_hours == Min(SessionTimeouts)
ExpiryStep ==
  \/ SweeperSweep(FALSE, session_timeout_hours)
  \/ SweeperWake
ExpiryNext ==
  \/ \E id \in {"a", NoneId} : CreateSession(id)
  \/ AddMessage("a", "user", <<"q">>, "None")
  \/ Tick
  \/ ExpiryStep
  \/ Shutdown
  \/ SweeperCancelled
  \/ ShutdownDone

SpecExpiry == Init /\ [][ExpiryNext]_vars /\ WF_vars(ExpiryStep)

\* POST /ask with every body, next to the other requests on the session "a".
RequestNext ==
  \/ \E t \in Slots, body \in Bodies, outcome \in Outcomes : AskAgent(t, body, outcome)
  \/ \E t \in Slots : TurnResume(t)
  \/ \E t \in Slots : TurnReset(t)
  \/ GetHistory("a")
  \/ DeleteSession("a")

SpecRequest == Init /\ [][RequestNext]_vars

\* ------------------------------------------------------------- SpecAwait
\* get_or_create_session against a SessionStorage whose coroutines suspend:
\* the caller is rescheduled between `await get_session` and
\* `await create_session`.
GocGet(c, session_id) ==
  /\ goc[c].pc = "idle"
  /\ goc' = [goc EXCEPT ![c] =
       [pc |-> "got", session_id |-> session_id, exc |-> "",
        sid |-> IF Truthy(session_id) /\ Storage_get_session(Mem, session_id) # NoRef
                  THEN session_id ELSE NoneId]]
  /\ lastOp' = Op("get_session", c, "", NoneId, 0, FALSE, 0, <<>>)
  /\ UNCHANGED <<sessions, heap, now, uuidCount, turn, sweeper>>

GocCreate(c) ==
  /\ goc[c].pc = "got"
  /\ IF goc[c].sid # NoneId
       THEN /\ goc' = [goc EXCEPT ![c].pc = "done"]
            /\ UNCHANGED <<sessions, heap, uuidCount>>
       ELSE /\ Fits(Mem, goc[c].session_id)
            /\ LET r == Storage_create_session(Mem, goc[c].session_id, now)
               IN /\ Store(r.mem, turn)
                  /\ goc' = [goc EXCEPT ![c].pc = "done", ![c].exc = r.exc,
                                        ![c].sid = IF r.exc = "" THEN r.id ELSE NoneId]
  /\ lastOp' = Op("get_or_create_session", c, goc'[c].exc, goc'[c].sid, 0,
                  goc'[c].exc = "", 0, <<>>)
  /\ UNCHANGED <<now, turn, sweeper>>

GocReturn(c) ==
  /\ goc[c].pc = "done"
  /\ goc' = [goc EXCEPT ![c] = IdleCaller]
  /\ lastOp' = Op("return", c, "", NoneId, 0, FALSE, 0, <<>>)
  /\ UNCHANGED <<sessions, heap, now, uuidCount, turn, sweeper>>

AwaitNext ==
  \/ \E c \in Callers, id \in GivenIds \cup {NoneId} : GocGet(c, id)
  \/ \E c \in Callers : GocCreate(c)
  \/ \E c \in Callers : GocReturn(c)
  \/ \E id \in GivenIds : DeleteSession(id)

SpecAwait == Init /\ [][AwaitNext]_vars

\* ------------------------------------------------------------------ claims
Stored(ss) == {id \in AllIds : ss[id] # NoRef}
Last(q) == q[Len(q)]
TurnOps == {"turn_start", "turn_resume"}

\* the session stored under sid holds the user message `content` and then an
\* assistant message, and nothing else
UserThenAssistant(ss, h, sid, content) ==
  /\ sid \in Stored(ss)
  /\ Len(h[ss[sid]].messages) = 2
  /\ h[ss[sid]].messages[1].role = "user"
  /\ h[ss[sid]].messages[1].content = content
  /\ h[ss[sid]].messages[2].role = "assistant"

\* C1: a turn issued with no session id, streaming or not, adds exactly one
\* session to the store (its first step adds it, its later steps add none), and
\* when the turn completes the session named by the complete event (by the
\* AgentResponse) holds exactly the user message and then the assistant message.
\* Clients send one request at a time on a session (SpecSeq).
C1_Step ==
  /\ (lastOp'.op = "turn_start" /\ turn'[lastOp'.id].given = NoneId) =>
       /\ turn'[lastOp'.id].session_id \notin Stored(sessions)
       /\ Stored(sessions') = Stored(sessions) \cup {turn'[lastOp'.id].session_id}
  /\ (lastOp'.op = "turn_resume" /\ turn[lastOp'.id].given = NoneId) =>
       Stored(sessions') = Stored(sessions)
  /\ (/\ lastOp'.op \in TurnOps
      /\ turn'[lastOp'.id].given = NoneId
      /\ turn'[lastOp'.id].pc = "done"
      /\ Last(turn'[lastOp'.id].events).type = "complete") =>
       UserThenAssistant(sessions', heap', Last(turn'[lastOp'.id].events).session_id,
                         IF lastOp'.op = "turn_start" THEN lastOp'.val
                         ELSE turn[lastOp'.id].enhanced_query)
  /\ (lastOp'.op = "process_query" /\ lastOp'.id = NoneId) =>
       /\ Cardinality(Stored(sessions')) = Cardinality(Stored(sessions)) + 1
       /\ Stored(sessions) \subseteq Stored(sessions')
       /\ lastOp'.exc = "" =>
            /\ lastOp'.sid \notin Stored(sessions)
            /\ UserThenAssistant(sessions', heap', lastOp'.sid, lastOp'.val)
C1_NewSessionTurn == [][C1_Step]_vars

\* a streamed turn without session id has just completed after two fragments
C1_Witness ==
  \E t \in Turns :
    /\ lastOp.op = "turn_resume" /\ lastOp.id = t
    /\ turn[t].pc = "done" /\ turn[t].given = NoneId
    /\ Len(turn[t].events) = 3 /\ turn[t].events[3].type = "complete"
    /\ UserThenAssistant(sessions, heap, turn[t].events[3].session_id, <<"q">>)

\* what a step appended to the session stored under id
Before(id) == IF id \in Stored(sessions) THEN heap[sessions[id]].messages ELSE <<>>

\* C2: a turn whose completion raises ends with one error event and no complete
\* event, and the step appends no assistant message to any session: a session
\* gains at most the turn's user message.  A finished turn emits nothing more.
C2_Step ==
  /\ (lastOp'.op = "turn_start" /\ lastOp'.ok) =>
       /\ turn'[lastOp'.id].pc = "done"
       /\ Len(turn'[lastOp'.id].events) = 1
       /\ turn'[lastOp'.id].events[1].type = "error"
       /\ \A id \in Stored(sessions') :
            \/ heap'[sessions'[id]].messages = Before(id)
            \/ /\ Len(heap'[sessions'[id]].messages) = Len(Before(id)) + 1
               /\ IsPrefix(Before(id), heap'[sessions'[id]].messages)
               /\ Last(heap'[sessions'[id]].messages).role = "user"
  /\ \A t \in Turns :
       (turn[t].pc = "done" /\ turn'[t].pc # "idle") => turn'[t] = turn[t]
C2_ErrorTurn == [][C2_Step]_vars

\* the completion service has raised in a turn on a session the turn resolved
C2_Witness ==
  \E t \in Turns :
    /\ lastOp.op = "turn_start" /\ lastOp.id = t /\ lastOp.ok
    /\ turn[t].events = <<Event("error", <<>>, NoneId, 0, "UpstreamFailure")>>
    /\ turn[t].session_id \in Stored(sessions)
    /\ Last(heap[sessions[turn[t].session_id]].messages).role = "user"

\* C3: get_or_create_session with an id under which a session is stored
\* succeeds, returns a session with that session_id, adds no session and leaves
\* every stored session as it was.
C3_Step ==
  (lastOp'.op = "get_or_create_session" /\ lastOp'.id \in Stored(sessions)) =>
    /\ lastOp'.exc = ""
    /\ lastOp'.sid = lastOp'.id
    /\ sessions' = sessions
    /\ heap' = heap
C3_Idempotent == [][C3_Step]_vars

Old(h) == {id \in Stored(sessions) : heap[sessions[id]].updated_at < now - h}
C5_Step ==
  lastOp'.op = "cleanup_expired_sessions" =>
    /\ Stored(sessions') = Stored(sessions) \ Old(lastOp'.val[1])
    /\ \A id \in Stored(sessions') : heap'[sessions'[id]] = heap[sessions[id]]
    /\ lastOp'.n = Cardinality(Old(lastOp'.val[1]))
C5_SweepExact == [][C5_Step]_vars

\* a sweep has removed a session and kept one whose updated_at is the cutoff
C5_Witness ==
  /\ lastOp.op = "cleanup_expired_sessions"
  /\ lastOp.n = 1
  /\ \E id \in Stored(sessions) : heap[sessions[id]].updated_at = now - lastOp.val[1]

\* C6: delete_session on a stored id returns true (200) and removes it; while
\* the id is not stored, get_session_history raises NotFound (404) and
\* delete_session returns false (404) without raising, and neither changes the
\* store; the id is stored again only by create_session or
\* get_or_create_session.
C6_Step ==
  /\ lastOp'.op = "delete_session" =>
       IF lastOp'.id \in Stored(sessions)
         THEN /\ lastOp'.ok /\ lastOp'.status = 200
              /\ Stored(sessions') = Stored(sessions) \ {lastOp'.id}
         ELSE /\ ~lastOp'.ok /\ lastOp'.status = 404 /\ lastOp'.exc = ""
              /\ sessions' = sessions /\ heap' = heap
  /\ (lastOp'.op = "get_session_history" /\ lastOp'.id \notin Stored(sessions)) =>
       /\ lastOp'.exc = "NotFound" /\ lastOp'.status = 404
       /\ sessions' = sessions /\ heap' = heap
  /\ Stored(sessions') \ Stored(sessions) # {} =>
       lastOp'.op \in {"create_session", "get_or_create_session"}
C6_Deleted == [][C6_Step]_vars

\* the session created under the first uuid is gone and a delete of it has just
\* returned false
C6_Witness ==
  /\ lastOp.op = "delete_session" /\ lastOp.id = Uuid(1)
  /\ ~lastOp.ok /\ lastOp.status = 404

\* C7: every successful add_message makes the session's list one longer, with
\* the new message (its role and content) last and the earlier ones in place,
\* so N pairs make it 2N longer in the order issued; the history lists the
\* messages in that order with role and content.
C7_Step ==
  /\ (lastOp'.op = "add_message" /\ lastOp'.exc = "") =>
       /\ lastOp'.id \in Stored(sessions) /\ lastOp'.id \in Stored(sessions')
       /\ heap'[sessions'[lastOp'.id]].messages =
            Append(heap[sessions[lastOp'.id]].messages, lastOp'.val[1])
       /\ lastOp'.n = Len(heap[sessions[lastOp'.id]].messages) + 1
  /\ (lastOp'.op = "get_session_history" /\ lastOp'.exc = "") =>
       /\ Len(lastOp'.val) = Len(heap[sessions[lastOp'.id]].messages)
       /\ \A i \in 1..Len(lastOp'.val) :
            /\ lastOp'.val[i].role = heap[sessions[lastOp'.id]].messages[i].role
            /\ lastOp'.val[i].content = heap[sessions[lastOp'.id]].messages[i].content
C7_AppendOrder == [][C7_Step]_vars

\* the history of a session to which a user/assistant pair was appended
C7_Witness ==
  /\ lastOp.op = "get_session_history" /\ lastOp.exc = ""
  /\ Len(lastOp.val) = 2
  /\ lastOp.val[1] = [role |-> "user", content |-> <<"q">>]
  /\ lastOp.val[2] = [role |-> "assistant", content |-> <<"r">>]

\* C8: for every id stored before and after a step, the messages before the
\* step are a prefix of the messages after it.
C8_Step ==
  \A id \in Stored(sessions) \cap Stored(sessions') :
    IsPrefix(heap[sessions[id]].messages, heap'[sessions'[id]].messages)
C8_AppendOnly == [][C8_Step]_vars

\* a message has just been appended to a session that had one
C8_Witness ==
  /\ lastOp.op = "add_message" /\ lastOp.exc = ""
  /\ Len(heap[sessions[lastOp.id]].messages) >= 2

\* C9: no step decreases the updated_at of a stored session, and a successful
\* add_message sets it to the time of the append, which is at or after its
\* previous value and at or after created_at.
C9_Step ==
  /\ \A id \in Stored(sessions) \cap Stored(sessions') :
       heap'[sessions'[id]].updated_at >= heap[sessions[id]].updated_at
  /\ (lastOp'.op = "add_message" /\ lastOp'.exc = "") =>
       /\ heap'[sessions'[lastOp'.id]].updated_at = now
       /\ heap'[sessions'[lastOp'.id]].updated_at >= heap[sessions[lastOp'.id]].updated_at
       /\ heap'[sessions'[lastOp'.id]].updated_at >= heap'[sessions'[lastOp'.id]].created_at
C9_UpdatedAt == [][C9_Step]_vars

\* an append has moved updated_at past created_at
C9_Witness ==
  /\ lastOp.op = "add_message" /\ lastOp.exc = ""
  /\ heap[sessions[lastOp.id]].updated_at > heap[sessions[lastOp.id]].created_at

\* C10: create_session with a stored id raises AlreadyExists and changes
\* nothing; with no id or an id that is not stored it adds exactly one session,
\* under the given id if one was given, with no messages, and leaves the others
\* as they were.
C10_Step ==
  lastOp'.op = "create_session" =>
    IF lastOp'.id \in Stored(sessions)
      THEN /\ lastOp'.exc = "AlreadyExists"
           /\ sessions' = sessions /\ heap' = heap
      ELSE /\ lastOp'.exc = ""
           /\ lastOp'.sid \notin Stored(sessions)
           /\ Stored(sessions') = Stored(sessions) \cup {lastOp'.sid}
           /\ lastOp'.id # NoneId => lastOp'.sid = lastOp'.id
           /\ heap'[sessions'[lastOp'.sid]].session_id = lastOp'.sid
           /\ heap'[sessions'[lastOp'.sid]].messages = <<>>
           /\ \A id \in Stored(sessions) : heap'[sessions'[id]] = heap[sessions[id]]
C10_Create == [][C10_Step]_vars

\* a create of an id whose session holds messages has just been refused
C10_Witness ==
  /\ lastOp.op = "create_session" /\ lastOp.exc = "AlreadyExists"
  /\ Len(heap[sessions[lastOp.id]].messages) >= 1

\* C11: get_or_create_session with an id that is not stored, or with no id,
\* succeeds and adds exactly one session: under the given id if one was given,
\* under an id that was not stored otherwise; the new session has no messages
\* and the other sessions are left as they were.
C11_Step ==
  (lastOp'.op = "get_or_create_session" /\ lastOp'.id \notin Stored(sessions)) =>
    /\ lastOp'.exc = ""
    /\ lastOp'.sid \notin Stored(sessions)
    /\ Stored(sessions') = Stored(sessions) \cup {lastOp'.sid}
    /\ lastOp'.id # NoneId => lastOp'.sid = lastOp'.id
    /\ heap'[sessions'[lastOp'.sid]].session_id = lastOp'.sid
    /\ heap'[sessions'[lastOp'.sid]].messages = <<>>
    /\ lastOp'.n = 0
    /\ \A id \in Stored(sessions) : heap'[sessions'[id]] = heap[sessions[id]]
C11_Provision == [][C11_Step]_vars

\* get_or_create_session has provisioned the given id "a" next to a session
\* that holds messages
C11_Witness ==
  /\ lastOp.op = "get_or_create_session" /\ lastOp.id = "a" /\ lastOp.sid = "a"
  /\ heap[sessions["a"]].messages = <<>>
  /\ \E id \in Stored(sessions) : Len(heap[sessions[id]].messages) >= 1

\* C12: add_message on an id that is not stored raises NotFound and changes
\* nothing, so it creates no session; on a stored id it appends exactly the one
\* message made of the given role, content and metadata to the stored session
\* and returns that session, the new message included.
C12_Step ==
  lastOp'.op = "add_message" =>
    IF lastOp'.id \notin Stored(sessions)
      THEN /\ lastOp'.exc = "NotFound"
           /\ sessions' = sessions /\ heap' = heap
      ELSE /\ lastOp'.exc = ""
           /\ Stored(sessions') = Stored(sessions)
           /\ lastOp'.sid = lastOp'.id
           /\ \E m \in Appends :
                /\ lastOp'.val = <<[role |-> m.role, content |-> m.content,
                                    metadata |-> MetaOr(m.metadata)]>>
                /\ heap'[sessions'[lastOp'.id]].messages =
                     Append(heap[sessions[lastOp'.id]].messages, lastOp'.val[1])
           /\ lastOp'.n = Len(heap'[sessions'[lastOp'.id]].messages)
           /\ \A id \in Stored(sessions) \ {lastOp'.id} :
                heap'[sessions'[id]] = heap[sessions[id]]
C12_Append == [][C12_Step]_vars

\* an append to an id that is not stored has just been refused, next to a
\* session that took an assistant message with metadata
C12_Witness ==
  /\ lastOp.op = "add_message" /\ lastOp.exc = "NotFound"
  /\ lastOp.id \notin Stored(sessions)
  /\ \E id \in Stored(sessions) :
       /\ Len(heap[sessions[id]].messages) >= 1
       /\ Last(heap[sessions[id]].messages) =
            [role |-> "assistant", content |-> <<"r">>, metadata |-> "{src}"]

\* the session a request with session id `given` works on: the stored one, or
\* the one the step has added
Resolved(given) ==
  IF given \in Stored(sessions) THEN given
  ELSE CHOOSE id \in AllIds : Stored(sessions') \ Stored(sessions) \subseteq {id}

\* the step has appended the user message `content` right after the messages
\* the session stored under id held before
UserPersisted(id, content) ==
  /\ id \in Stored(sessions')
  /\ Len(heap'[sessions'[id]].messages) > Len(Before(id))
  /\ IsPrefix(Before(id), heap'[sessions'[id]].messages)
  /\ heap'[sessions'[id]].messages[Len(Before(id)) + 1] =
       [role |-> "user", content |-> content, metadata |-> "{}"]

\* C13: whenever a turn has invoked the completion service (it returned, or it
\* raised UpstreamFailure), the session of the turn already holds the turn's
\* user message, appended after what the session held before the turn: a
\* failure of the completion service leaves the question recorded.
C13_Step ==
  /\ (lastOp'.op = "turn_start" /\ turn'[lastOp'.id].session_id # NoneId) =>
       UserPersisted(turn'[lastOp'.id].session_id, lastOp'.val)
  /\ (lastOp'.op = "turn_start" /\ lastOp'.ok /\ turn'[lastOp'.id].given # "") =>
       UserPersisted(Resolved(turn'[lastOp'.id].given), lastOp'.val)
  /\ (lastOp'.op = "process_query" /\ lastOp'.exc \in {"", "UpstreamFailure"}) =>
       UserPersisted(Resolved(lastOp'.id), lastOp'.val)
C13_UserFirst == [][C13_Step]_vars

\* the completion service has returned its first fragment: the session holds
\* the question and no answer yet
C13_Witness ==
  \E t \in Turns :
    /\ lastOp.op = "turn_start" /\ lastOp.id = t
    /\ turn[t].pc = "streaming"
    /\ Len(turn[t].events) = 1
    /\ turn[t].session_id \in Stored(sessions)
    /\ Last(heap[sessions[turn[t].session_id]].messages) =
         [role |-> "user", content |-> turn[t].enhanced_query, metadata |-> "{}"]

\* C14: the events of a turn are chunk events followed, once the turn has
\* ended, by exactly one terminal event (complete or error), which is the last;
\* before the end there are only chunks.  So a turn never emits both complete
\* and error, and no chunk after its terminal event.
Terminal == {"complete", "error"}
C14_EventShape ==
  \A t \in Turns :
    LET ev == turn[t].events
    IN /\ turn[t].pc = "idle" => ev = <<>>
       /\ turn[t].pc = "streaming" =>
            /\ Len(ev) >= 1
            /\ \A i \in 1..Len(ev) : ev[i].type = "chunk"
       /\ turn[t].pc = "done" =>
            /\ Len(ev) >= 1
            /\ Last(ev).type \in Terminal
            /\ \A i \in 1..(Len(ev) - 1) : ev[i].type = "chunk"

\* both turns have ended after a chunk, one with complete and one with error
C14_Witness ==
  /\ turn["t1"].pc = "done" /\ turn["t2"].pc = "done"
  /\ Len(turn["t1"].events) >= 2 /\ Len(turn["t2"].events) >= 2
  /\ Last(turn["t1"].events).type = "complete"
  /\ Last(turn["t2"].events).type = "error"

\* the contents of the chunk events among the first i events, concatenated
RECURSIVE ChunkText(_, _)
ChunkText(ev, i) ==
  IF i = 0 THEN <<>>
  ELSE ChunkText(ev, i - 1) \o (IF ev[i].type = "chunk" THEN ev[i].content ELSE <<>>)

\* C15: in the step in which a streaming turn emits its complete event, the
\* session stored under the turn's session id has gained exactly one message,
\* the assistant message, and its content is the concatenation, in emission
\* order, of the contents of the turn's chunk events.
C15_Step ==
  \A t \in Turns :
    (/\ turn[t].pc # "done" /\ turn'[t].pc = "done"
     /\ Last(turn'[t].events).type = "complete") =>
      LET sid == turn'[t].session_id
          ev == turn'[t].events
      IN /\ sid \in Stored(sessions')
         /\ Last(heap'[sessions'[sid]].messages) =
              [role |-> "assistant", content |-> ChunkText(ev, Len(ev)),
               metadata |-> AgentName]
         /\ turn[t].pc = "streaming" =>
              /\ sid \in Stored(sessions)
              /\ heap'[sessions'[sid]].messages =
                   Append(heap[sessions[sid]].messages,
                          Last(heap'[sessions'[sid]].messages))
C15_AssistantIsChunks == [][C15_Step]_vars

\* a turn has completed after two chunks and the session ends with their
\* concatenation
C15_Witness ==
  \E t \in Turns :
    /\ turn[t].pc = "done"
    /\ Len(turn[t].events) = 3 /\ turn[t].events[3].type = "complete"
    /\ "a" \in Stored(sessions)
    /\ Last(heap[sessions["a"]].messages).content = <<"r", " ", "s", " ">>

\* C16: the conversation length carried by a complete event, and by the
\* AgentResponse of a non-streaming turn, is the number of messages of the
\* session stored under the session id it carries, at the step that produces it.
C16_Step ==
  /\ \A t \in Turns :
       (/\ turn[t].pc # "done" /\ turn'[t].pc = "done"
        /\ Last(turn'[t].events).type = "complete") =>
         /\ Last(turn'[t].events).session_id \in Stored(sessions')
         /\ Last(turn'[t].events).conversation_length =
              Len(heap'[sessions'[Last(turn'[t].events).session_id]].messages)
  /\ (lastOp'.op = "process_query" /\ lastOp'.exc = "") =>
       /\ lastOp'.sid \in Stored(sessions')
       /\ lastOp'.n = Len(heap'[sessions'[lastOp'.sid]].messages)
C16_Length == [][C16_Step]_vars

\* C17: a turn that has resolved its session and whose completion service
\* neither raises nor yields a fragment ends at once with a single event, a
\* complete event, and its session gains exactly two messages: the user message
\* and an assistant message with empty content.
C17_Step ==
  (/\ lastOp'.op = "turn_start" /\ ~lastOp'.ok
   /\ turn'[lastOp'.id].session_id # NoneId
   /\ turn'[lastOp'.id].pc = "done") =>
    LET sid == turn'[lastOp'.id].session_id
        ev == turn'[lastOp'.id].events
    IN /\ Len(ev) = 1 /\ ev[1].type = "complete"
       /\ sid \in Stored(sessions')
       /\ heap'[sessions'[sid]].messages =
            Before(sid) \o
              << [role |-> "user", content |-> lastOp'.val, metadata |-> "{}"],
                 [role |-> "assistant", content |-> <<>>, metadata |-> AgentName] >>
C17_EmptyStream == [][C17_Step]_vars

\* a turn on a stored session has just completed without any chunk
C17_Witness ==
  \E t \in Turns :
    /\ lastOp.op = "turn_start" /\ lastOp.id = t /\ ~lastOp.ok
    /\ turn[t].given = "a"
    /\ turn[t].events = <<Event("complete", <<>>, "a", 2, "")>>
    /\ Last(heap[sessions["a"]].messages).content = <<>>

\* the kind of a wire frame, read off its fields
FrameKind(f) ==
  IF "mime_type" \in DOMAIN f THEN "chunk"
  ELSE IF "error" \in DOMAIN f THEN "error"
  ELSE "complete"

\* C18: for the events of every turn, at every point of the turn, the transport
\* adapter writes as many frames as there are events, the i-th frame being of
\* the kind of the i-th event and carrying its content, session id or message.
C18_FramesOneToOne ==
  \A t \in Turns :
    LET ev == turn[t].events
        fr == stream_agent_response(ev)
    IN /\ Len(fr) = Len(ev)
       /\ \A i \in 1..Len(ev) :
            /\ FrameKind(fr[i]) = ev[i].type
            /\ ev[i].type = "chunk" =>
                 fr[i].data = ev[i].content /\ fr[i].session_id = ev[i].session_id
            /\ ev[i].type = "complete" =>
                 /\ fr[i].session_id = ev[i].session_id
                 /\ fr[i].metadata.conversation_length = ev[i].conversation_length
            /\ ev[i].type = "error" => fr[i].message = ev[i].error

\* a turn has produced two chunks and then an error: three frames of these kinds
C18_Witness ==
  \E t \in Turns :
    LET fr == stream_agent_response(turn[t].events)
    IN /\ Len(fr) = 3
       /\ FrameKind(fr[1]) = "chunk" /\ FrameKind(fr[2]) = "chunk"
       /\ FrameKind(fr[3]) = "error" /\ fr[3].message = "NotFound"

\* C19: when invoking the orchestrator's streaming operation raises, POST /ask
\* answers with status 500 and a detail that is the exception's message.
C19_Step ==
  lastOp'.op = "ask_agent" =>
    /\ lastOp'.status = 500
    /\ lastOp'.val[1] = lastOp'.exc
C19_Status500 == [][C19_Step]_vars

\* C20: a sweep that raises does not end the sweeper: after a failed sweep the
\* task sleeps and then stands ready to sweep again, and unless it is cancelled
\* sweeps occur again and again.
C20_SweeperSurvives ==
  /\ []<>(lastOp.op = "sweeper_sweep" \/ sweeper.pc = "cancelled")
  /\ (lastOp.op = "sweeper_sweep" /\ lastOp.exc # "")
       ~> (sweeper.pc \in {"sweep", "cancelled"})
  /\ [](sweeper.pc \in {"sweep", "sweeping", "sleep", "cancelled"})

\* after an iteration that failed, a later sweep has removed a session
C20_Witness ==
  /\ lastOp.op = "sweeper_sweep" /\ lastOp.exc = "" /\ lastOp.n = 1
  /\ sweeper.logged
  /\ sweeper.pc = "sleep"

\* C21: once shutdown has called cancel, the sweeper task ends wherever it
\* waits (before its first step, inside a sweep, in its sleep) and shutdown
\* completes, without raising; when shutdown has completed the task is done,
\* and no sweep runs from the call of cancel on.
C21_NoSweepAfter ==
  (sweeper.shutdown # "no" /\ sweeper'.shutdown # "no") =>
    lastOp'.op \notin {"sweeper_sweep", "sweeper_wake", "sweeper_enter"}
C21_GracefulShutdown ==
  /\ (sweeper.shutdown = "cancel") ~> (sweeper.shutdown = "done")
  /\ [](sweeper.shutdown = "done" => sweeper.pc = "cancelled")
  /\ [](lastOp.op = "shutdown_done" => lastOp.exc = "" /\ lastOp.ok)
  /\ [][C21_NoSweepAfter]_vars

\* the cancellation has reached the task inside a sweep, after a session was
\* stored, and the task is done
C21_Witness ==
  /\ lastOp.op = "sweeper_cancelled" /\ lastOp.id = "sweeping"
  /\ sweeper.pc = "cancelled" /\ sweeper.shutdown = "await"
  /\ Stored(sessions) # {}

\* C22: a POST /ask whose query has no character, or more than 2000, is
\* answered with the client error 422 and reaches nothing: no session is
\* created, no message is appended, no event is produced; every other query
\* is let through.
C22_Step ==
  lastOp'.op = "post_ask" /\ lastOp' # lastOp =>
    IF StrLen(lastOp'.val) = 0 \/ StrLen(lastOp'.val) > 2000
      THEN /\ lastOp'.status = 422
           /\ sessions' = sessions /\ heap' = heap /\ uuidCount' = uuidCount
           /\ turn' = turn
      ELSE lastOp'.status = 200 /\ turn'[lastOp'.id].events # <<>>
C22_Rejected == [][C22_Step]_vars

\* a query of 2001 characters has been refused while a session is stored
C22_Witness ==
  /\ lastOp.op = "post_ask" /\ lastOp.status = 422 /\ StrLen(lastOp.val) = 2001
  /\ Stored(sessions) # {}
\* a query of exactly 2000 characters has been let through and persisted
C22_WitnessLongest ==
  /\ lastOp.op = "post_ask" /\ lastOp.status = 200 /\ StrLen(lastOp.val) = 2000
  /\ lastOp.sid \in Stored(sessions)
  /\ \E i \in DOMAIN heap[sessions[lastOp.sid]].messages :
       heap[sessions[lastOp.sid]].messages[i].content = lastOp.val

\* C24: the user message that a POST /ask persists is the enhanced query when
\* the request carries a file (the template around the extracted text, or the
\* query with the failure note), never the bare query, and the query verbatim
\* when it carries none.
C24_Step ==
  \A t \in Slots, body \in Bodies, outcome \in Outcomes :
    (AskAgent(t, body, outcome) /\ lastOp'.status = 200) =>
      /\ UserPersisted(lastOp'.sid, EnhancedQuery(body.query, body.file))
      /\ body.file.present => ~UserPersisted(lastOp'.sid, body.query)
C24_FileEnhanced == [][C24_Step]_vars

\* C23: a turn whose document cannot be extracted is not aborted.  The user
\* message persisted is the query with the failure note appended, the
\* completion service is invoked (its failure or its first fragment is the
\* turn's first event), and the turn ends with complete unless the completion
\* raises or the session is gone when the assistant message is appended.
FailureNote == <<"(Nota: erro no arquivo)">>
BadFiles == {f \in Files : f.present /\ ~f.ok}
C23_Start ==
  \A t \in Slots, query \in Queries, id \in {"a", NoneId}, f \in BadFiles,
     outcome \in Outcomes :
    TurnStart(t, query, id, "{}", f, outcome) =>
      /\ UserPersisted(turn'[t].session_id, query \o FailureNote)
      /\ turn'[t].events # <<>>
      /\ LET e == turn'[t].events[1]
             words == Split(outcome.text)
         IN IF outcome.raises THEN e.type = "error" /\ e.error = "UpstreamFailure"
            ELSE IF words = <<>> THEN e.type = "complete"
            ELSE e.type = "chunk" /\ e.content = Fragment(words[1])
C23_End ==
  \A t \in Slots :
    (/\ turn[t].pc = "streaming" /\ turn'[t].pc = "done"
     /\ turn[t].enhanced_query = <<"q">> \o FailureNote
     /\ turn[t].session_id \in Stored(sessions)) =>
      Last(turn'[t].events).type = "complete"
C23_Degrades == [][C23_Start /\ C23_End]_vars

\* a turn with a bad document has ended with complete; its session holds the
\* query with the note and the assistant's answer
C23_Witness ==
  \E t \in Slots :
    /\ turn[t].pc = "done" /\ Last(turn[t].events).type = "complete"
    /\ turn[t].session_id \in Stored(sessions)
    /\ LET m == heap[sessions[turn[t].session_id]].messages
       IN /\ Len(m) = 2
          /\ m[1].role = "user" /\ m[1].content = <<"q">> \o FailureNote
          /\ m[2].role = "assistant" /\ m[2].content # <<>>

\* C25: for a history of n >= 2 entries and every query, the context is the
\* 'previous context' header, then the entries at the (0-based) positions
\* max(0, n-10) .. n-2 as 'role: content' lines in order, then the 'current
\* question' marker, then the query; at most 9 entries of the history appear.
RECURSIVE C25_Lines(_, _, _)
C25_Lines(h, i, j) ==
  IF i > j THEN <<>>
  ELSE <<"\n", IF h[i].role = "user" THEN "Usuario" ELSE "Assistente", ": ">>
       \o h[i].content \o C25_Lines(h, i + 1, j)
C25_Expected(h, query) ==
  LET n == Len(h)
      first == IF n - 10 > 0 THEN n - 10 ELSE 0
  IN <<"Contexto da conversa anterior:">>
     \o C25_Lines(h, first + 1, (n - 2) + 1)
     \o <<"\n", "\n", "Pergunta atual:", "\n">> \o query
C25_Step ==
  \A query \in ContextQueries :
    (BuildContext("a", query) /\ Len(Before("a")) >= 2) =>
      /\ lastOp'.val = C25_Expected(Before("a"), query)
      /\ Cardinality({i \in DOMAIN lastOp'.val : lastOp'.val[i] = ": "}) <= 9
C25_Window == [][C25_Step]_vars

\* the builder has run on a history of 12 entries: the first two and the last
\* are left out
C25_Witness ==
  /\ lastOp.op = "build_context" /\ lastOp.n = 12
  /\ Cardinality({i \in DOMAIN lastOp.val : lastOp.val[i] = ": "}) = 9
  /\ \A i \in DOMAIN lastOp.val : lastOp.val[i] \notin {"1", "2", "12"}
  /\ \E i \in DOMAIN lastOp.val : lastOp.val[i] = "3"
  /\ \E i \in DOMAIN lastOp.val : lastOp.val[i] = "11"

\* C26: for an empty history and for a history of exactly one entry the
\* context is the query alone, without header and without marker.
C26_Step ==
  \A query \in ContextQueries :
    (BuildContext("a", query) /\ Len(Before("a")) <= 1) => lastOp'.val = query
C26_FirstTurn == [][C26_Step]_vars

\* the builder has run on a history of one entry
C26_Witness ==
  /\ lastOp.op = "build_context" /\ lastOp.n = 1 /\ lastOp.val = <<"q", " ", "w">>
\* the builder has run on an empty history
C26_WitnessEmpty ==
  /\ lastOp.op = "build_context" /\ lastOp.n = 0 /\ lastOp.val = <<"q">>

\* C27: when the client stops reading a turn's stream after a chunk and before
\* the terminal event, no assistant message is persisted for the turn: the
\* step changes no stored session, nothing of the turn is left to run, and the
\* turn's session, if still stored, ends with the turn's user message.
C27_Step ==
  lastOp'.op = "turn_abandon" =>
    LET t == lastOp'.id
        sid == lastOp'.sid
    IN /\ turn'[t] = IdleTurn
       /\ Stored(sessions') = Stored(sessions)
       /\ \A id \in Stored(sessions) :
            heap'[sessions'[id]].messages = heap[sessions[id]].messages
       /\ (sid \in Stored(sessions) /\ sessions[sid] = turn[t].session) =>
            LET m == heap'[sessions'[sid]].messages
            IN /\ m # <<>>
               /\ Last(m).role = "user" /\ Last(m).content = lastOp'.val
C27_Abandoned == [][C27_Step]_vars

\* the stream was left after its second chunk; the session holds the user
\* message alone
C27_Witness ==
  /\ lastOp.op = "turn_abandon" /\ lastOp.n = 2
  /\ lastOp.sid \in Stored(sessions)
  /\ Len(heap[sessions[lastOp.sid]].messages) = 1
  /\ heap[sessions[lastOp.sid]].messages[1].role = "user"

\* C28: a sweep interleaved with turns, appends, reads and deletes neither
\* removes nor alters a session that is not expired, nor a turn; and an
\* operation on one session id changes neither the messages nor the
\* timestamps of a session stored under another id.
C28_Target ==
  IF lastOp'.op \in {"turn_start", "turn_resume", "create_session"}
    THEN {lastOp'.sid}
    ELSE {lastOp'.id}
C28_Same(id) ==
  /\ id \in Stored(sessions')
  /\ heap'[sessions'[id]] = heap[sessions[id]]
C28_Step ==
  /\ lastOp'.op = "cleanup_expired_sessions" =>
       /\ \A id \in Stored(sessions) :
            heap[sessions[id]].updated_at >= now - lastOp'.val[1] => C28_Same(id)
       /\ turn' = turn /\ uuidCount' = uuidCount
  /\ lastOp'.op \in {"create_session", "add_message", "get_session_history",
                     "delete_session", "turn_start", "turn_resume", "turn_reset"} =>
       \A id \in Stored(sessions) \ C28_Target : C28_Same(id)
C28_Isolation == [][C28_Step]_vars

\* a sweep has removed an expired session beside a session that is not
\* expired and that a streaming turn is using
C28_Witness ==
  /\ lastOp.op = "cleanup_expired_sessions" /\ lastOp.n = 1
  /\ Cardinality(Stored(sessions)) = 1
  /\ \E t \in Slots : turn[t].pc = "streaming" /\ turn[t].session_id \in Stored(sessions)
\* an append to one session beside another stored session
C28_WitnessAppend ==
  /\ lastOp.op = "add_message" /\ lastOp.ok
  /\ Cardinality(Stored(sessions)) = 2
  /\ \E id \in Stored(sessions) \ {lastOp.id} : heap[sessions[id]].messages # <<>>

\* C29: update(session) replaces in full whatever is stored under
\* session.session_id: after it get(id) returns exactly the state passed in,
\* a second update with the same session changes nothing, and no session
\* stored under another id is changed.
C29_Step ==
  lastOp'.op = "update_session" =>
    LET id == lastOp'.id
        r == Storage_get_session(Mem', id)
    IN /\ r # NoRef
       /\ heap'[r] = lastOp'.val[1]
       /\ Storage_update_session(Mem', r) = Mem'
       /\ \A other \in Stored(sessions) \ {id} : C28_Same(other)
       /\ Stored(sessions') = Stored(sessions) \cup {id}
C29_Replace == [][C29_Step]_vars

\* an update has stored the session passed in under "a", beside a
\* session stored under another id
C29_Witness ==
  /\ lastOp.op = "update_session" /\ lastOp.id = "a"
  /\ heap[sessions["a"]].messages = <<Message("user", <<"w">>, "None", 0)>>
  /\ Cardinality(Stored(sessions)) = 2

\* C30: the reads do not change the store.  get on an id that is not stored
\* returns absent, raises nothing and creates nothing; get, history and
\* get_or_create on a stored id leave the store as it is, the session's
\* messages and updated_at in particular.
C30_Unchanged == sessions' = sessions /\ heap' = heap /\ uuidCount' = uuidCount
C30_Step ==
  /\ lastOp'.op = "storage_get_session" =>
       /\ C30_Unchanged
       /\ lastOp'.exc = ""
       /\ lastOp'.ok <=> lastOp'.id \in Stored(sessions)
       /\ lastOp'.ok => lastOp'.sid = lastOp'.id
  /\ lastOp'.op = "get_session_history" => C30_Unchanged
  /\ (lastOp'.op = "get_or_create_session" /\ lastOp'.id \in Stored(sessions)) =>
       /\ C30_Unchanged
       /\ heap'[sessions'[lastOp'.id]].messages = heap[sessions[lastOp'.id]].messages
       /\ heap'[sessions'[lastOp'.id]].updated_at = heap[sessions[lastOp'.id]].updated_at
C30_ReadOnly == [][C30_Step]_vars

\* get_or_create has found a session that holds a message and was last
\* updated before the present time
C30_Witness ==
  /\ lastOp.op = "get_or_create_session" /\ lastOp.ok /\ lastOp.id = "a"
  /\ lastOp.n = 1
  /\ heap[sessions["a"]].updated_at < now
\* get has returned absent for an id that is not stored, beside a stored session
C30_WitnessMiss ==
  /\ lastOp.op = "storage_get_session" /\ ~lastOp.ok /\ lastOp.id = "a"
  /\ Stored(sessions) # {} /\ "a" \notin Stored(sessions)

\* C31: a session that is not in the store comes into it only by a create or
\* a get_or_create issued for its id: no append and no update puts back a
\* session that a delete or a sweep has removed.
C31_Step ==
  \A id \in AllIds :
    (id \notin Stored(sessions) /\ id \in Stored(sessions')) =>
      /\ lastOp'.op \in {"create_session", "get_or_create_session"}
      /\ lastOp'.sid = id
C32_Count(m, x) == Cardinality({i \in DOMAIN m : m[i] = x})
C32_Prior == [role |-> "user", content |-> <<"x">>, metadata |-> "{}"]
C32_Completed(t) ==
  turn[t].pc = "done" /\ Last(turn[t].events).type = "complete"
C32_Asst(t) ==
  [role |-> "assistant", content |-> ChunkText(turn[t].events, Len(turn[t].events)),
   metadata |-> AgentName]
C32_User(t) == [role |-> "user", content |-> QueryOf(t), metadata |-> "{}"]
C32_NoLostMessage ==
  (C32_Completed("t1") /\ C32_Completed("t2")) =>
    /\ "a" \in Stored(sessions)
    /\ LET m == heap[sessions["a"]].messages
           k == C32_Count(m, C32_Prior)
       IN /\ k <= 1 /\ (k = 1 => m[1] = C32_Prior)
          /\ Len(m) = k + 4
          /\ C32_Count(m, C32_User("t1")) = 1
          /\ C32_Count(m, C32_User("t2")) = 1
          /\ IF C32_Asst("t1") = C32_Asst("t2")
               THEN C32_Count(m, C32_Asst("t1")) = 2
               ELSE C32_Count(m, C32_Asst("t1")) = 1 /\ C32_Count(m, C32_Asst("t2")) = 1

\* both turns have completed after streaming at the same time: the second
\* user message was appended before the first assistant message
C32_Witness ==
  /\ C32_Completed("t1") /\ C32_Completed("t2")
  /\ "a" \in Stored(sessions)
  /\ LET m == heap[sessions["a"]].messages
     IN /\ Len(m) = 5
        /\ m[2].role = "user" /\ m[3].role = "user"
        /\ m[4].role = "assistant" /\ m[5].role = "assistant"
        /\ m[4].content # <<>> /\ m[5].content # <<>>

\* C33: when sessions change only through turns, deletes and sweeps, no
\* stored session holds more assistant messages than user messages: every
\* assistant message stands in the session of its own turn's user message.
C33_Roles(m, role) == Cardinality({i \in DOMAIN m : m[i].role = role})
C33_AssistantHasUser ==
  \A id \in Stored(sessions) :
    C33_Roles(heap[sessions[id]].messages, "assistant")
      <= C33_Roles(heap[sessions[id]].messages, "user")

\* C34: a streaming turn whose session was deleted, by DELETE or by a sweep,
\* after its user message was persisted ends with an error event after the
\* chunks it has emitted, emits no complete event, and leaves the session
\* absent from the store.
C34_Deleted(t) ==
  /\ turn[t].pc = "streaming"
  /\ sessions[turn[t].session_id] # turn[t].session
C34_Step ==
  \A t \in Turns :
    (C34_Deleted(t) /\ turn'[t].pc = "done") =>
      /\ Last(turn'[t].events).type = "error"
      /\ \A i \in DOMAIN turn'[t].events : turn'[t].events[i].type # "complete"
      /\ IsPrefix(turn[t].events, turn'[t].events)
      /\ turn[t].session_id \notin Stored(sessions')
C34_DeletedMidTurn == [][C34_Step]_vars

\* C35: the sweeper never removes a session between a turn's resolution of it
\* and the turn's append of the user message.  Whatever sweeps and ticks of
\* the clock surround it, the start of a turn persists the user message in
\* the session it resolved and does not fail with NotFound.
C35_Step ==
  \A t \in Slots :
    (lastOp'.op = "turn_start" /\ lastOp'.id = t) =>
      /\ turn'[t].session_id # NoneId
      /\ UserPersisted(turn'[t].session_id, lastOp'.val)
      /\ turn'[t].events # <<>> => turn'[t].events[1].error # "NotFound"
C35_NoSweepBetween == [][C35_Step]_vars

\* a turn has started on a session that a sweep with a timeout of one hour
\* would have removed, and streams
C35_Witness ==
  /\ lastOp.op = "turn_start" /\ lastOp.sid = "a" /\ now = 2
  /\ "a" \in Stored(sessions)
  /\ heap[sessions["a"]].created_at = 0
  /\ Len(heap[sessions["a"]].messages) = 1
  /\ \E t \in Slots : turn[t].pc = "streaming" /\ turn[t].session_id = "a"

\* C36: the chunk events and the complete event of one turn all carry one
\* session_id, the id of the session in which the turn persisted its user
\* message: the id the request gave when it gave a non-empty one, the id of
\* the session the turn has newly created otherwise.
C36_Carried ==
  \A t \in Turns :
    \A i \in DOMAIN turn[t].events :
      turn[t].events[i].type \in {"chunk", "complete"} =>
        /\ turn[t].events[i].session_id = turn[t].session_id
        /\ turn[t].given \notin {NoneId, ""} => turn[t].session_id = turn[t].given
C36_Step ==
  \A t \in Turns :
    (lastOp'.op = "turn_start" /\ lastOp'.id = t /\ turn'[t].session_id # NoneId) =>
      /\ UserPersisted(turn'[t].session_id, lastOp'.val)
      /\ turn'[t].given \in {NoneId, ""} =>
           turn'[t].session_id \notin Stored(sessions)
C36_SessionId == [][C36_Carried' /\ C36_Step]_vars

\* a turn that gave no id has streamed two chunks and completed on a
\* generated id
C36_Witness ==
  \E t \in Turns :
    /\ turn[t].pc = "done" /\ turn[t].given = NoneId
    /\ Len(turn[t].events) = 3 /\ Last(turn[t].events).type = "complete"
    /\ Last(turn[t].events).session_id = Uuid(1)
    /\ turn[t].events[1].session_id = Uuid(1)


\* C37: a turn that ends with an error event because the completion service
\* raised leaves its session holding what it held before followed by the
\* turn's user message and nothing else (a session the turn created holds that
\* one message), and leaves every other session alone.  A turn that then
\* succeeds on a session left like that appends its own user message after the
\* orphaned one, and its assistant message after its user message.
C37_Orphaned(id) ==
  /\ id \in Stored(sessions) /\ Before(id) # <<>>
  /\ Last(Before(id)).role = "user"
  /\ \A t \in Turns : turn[t].pc # "streaming"
C37_Step ==
  LET t == lastOp'.id
      sid == turn'[t].session_id
  IN /\ (lastOp'.op = "turn_start" /\ lastOp'.ok) =>
          /\ Last(turn'[t].events).type = "error"
          /\ sid \in Stored(sessions')
          /\ heap'[sessions'[sid]].messages =
               Append(Before(sid),
                      [role |-> "user", content |-> lastOp'.val, metadata |-> "{}"])
          /\ \A id \in Stored(sessions') \ {sid} :
               id \in Stored(sessions) /\ heap'[sessions'[id]].messages = Before(id)
     /\ (lastOp'.op = "turn_start" /\ ~lastOp'.ok /\ C37_Orphaned(sid)) =>
          /\ UserPersisted(sid, lastOp'.val)
          /\ turn'[t].pc = "done" =>
               heap'[sessions'[sid]].messages =
                 Before(sid) \o
                   <<[role |-> "user", content |-> lastOp'.val, metadata |-> "{}"],
                     [role |-> "assistant", content |-> <<>>, metadata |-> AgentName]>>
     /\ (lastOp'.op = "turn_resume" /\ turn'[t].pc = "done") =>
          /\ Last(turn'[t].events).type = "complete"
          /\ heap'[sessions'[sid]].messages =
               Append(Before(sid),
                      [role |-> "assistant", content |-> turn[t].full_response,
                       metadata |-> AgentName])
C37_ErrorThenSuccess == [][C37_Step]_vars

\* a turn without session id has failed on the session it created, and the
\* next turn on that session has streamed its answer to the end
C37_Witness ==
  /\ turn["t1"].pc = "done" /\ Len(turn["t1"].events) = 3
  /\ turn["t1"].session_id = Uuid(1)
  /\ Last(turn["t1"].events).type = "complete"
  /\ Uuid(1) \in Stored(sessions)
  /\ heap[sessions[Uuid(1)]].messages =
       <<[role |-> "user", content |-> <<"q">>, metadata |-> "{}"],
         [role |-> "user", content |-> <<"w">>, metadata |-> "{}"],
         [role |-> "assistant", content |-> <<"r", " ", "s", " ">>, metadata |-> AgentName]>>

\* the completion service has just raised in a turn that created its session
C37_WitnessError ==
  /\ lastOp.op = "turn_start" /\ lastOp.ok
  /\ turn["t1"].given = NoneId /\ turn["t1"].session_id = Uuid(1)
  /\ Len(heap[sessions[Uuid(1)]].messages) = 1


\* C38: while the sweeper task is not cancelled and its sweeps do not raise, a
\* session whose idle time exceeds the configured timeout is eventually out of
\* the store unless a message is appended to it.  The task's first step is a
\* sweep (no sleep precedes it); after every sweep the task sleeps, and the
\* return of one sleep is what stands between two sweeps.
C38_Idle(id, r, n) ==
  /\ sessions[id] = r
  /\ Len(heap[r].messages) = n
  /\ now - heap[r].updated_at > session_timeout_hours
  /\ sweeper.shutdown = "no"
C38_Gone(id, r, n) ==
  \/ sessions[id] # r
  \/ Len(heap[r].messages) > n
  \/ sweeper.shutdown # "no"
C38_Step ==
  /\ lastOp'.op = "sweeper_sweep" =>
       /\ sweeper.pc = "sweep" /\ sweeper'.pc = "sleep"
       /\ \A id \in AllIds :
            (sessions[id] # NoRef
               /\ now - heap[sessions[id]].updated_at > session_timeout_hours)
              => sessions'[id] = NoRef
  /\ lastOp'.op = "sweeper_wake" => sweeper.pc = "sleep" /\ sweeper'.pc = "sweep"
  /\ (sweeper.pc = "sleep" /\ sweeper'.pc # "sleep") =>
       lastOp'.op \in {"sweeper_wake", "sweeper_cancelled"}
C38_ExpiryLiveness ==
  /\ \A id \in TwoIds, r \in Refs, n \in 0..MaxMsgs :
       C38_Idle(id, r, n) ~> C38_Gone(id, r, n)
  /\ sweeper.pc = "sweep"
  /\ [][C38_Step]_vars

\* a sweep after the first one has removed a session that had gone idle for
\* longer than the timeout while the task slept
C38_Witness ==
  /\ lastOp.op = "sweeper_sweep" /\ lastOp.exc = "" /\ lastOp.n = 1
  /\ now > session_timeout_hours
  /\ Stored(sessions) = {}
  /\ uuidCount = 1


\* C39: for the same query, the same store and the same completion output, a
\* streaming turn without document read to its end (nothing else running) and
\* process_query leave the same sessions holding the same messages: the user
\* message followed by an assistant message of the same content.
RECURSIVE C39_ReadToEnd(_, _, _)
C39_ReadToEnd(M, tr, t) ==
  IF tr.pc # "streaming" THEN [mem |-> M, turn |-> tr]
  ELSE LET r == Resume(M, tr, t) IN C39_ReadToEnd(r.mem, r.turn, t)
C39_Messages(M) ==
  [id \in AllIds |-> IF M.sessions[id] = NoRef THEN <<"absent">>
                     ELSE <<M.heap[M.sessions[id]].messages>>]
C39_Step ==
  \A query \in Queries \cup {<<"w">>}, id \in AllIds \cup {NoneId}, outcome \in Outcomes :
    (/\ ~outcome.raises
     /\ \/ TurnStart("t1", query, id, "{}", NoFile, outcome)
        \/ TurnJoin("t1", query, id, "{}", outcome))
      => C39_Messages(C39_ReadToEnd(Mem', turn'["t1"], now).mem)
           = C39_Messages(Query(Mem, query, id, "{}", outcome, now).mem)
C39_SameFinalState == [][C39_Step]_vars

====
